---- MODULE Spec2Model ----
(***************************************************************************)
(* The RainbondPackage reconciler of controllers/rainbondpackage_controller *)
(* .go: the condition chain Init -> DownloadPackage -> UnpackPackage ->     *)
(* PushImage -> Ready, one reconciliation pass at a time, with the progress *)
(* reporters the download and unpack stages start.                          *)
(***************************************************************************)
EXTENDS Integers, Sequences, FiniteSets, TLC

VARIABLES
    stored,           \* the persisted RainbondPackage status (the API server's copy)
    downloadPackage,  \* pkg.downloadPackage, fixed for the run
    pc,               \* position of the current pass ("idle": no pass is running)
    p,                \* the pass's in-memory status (pkg.Status / p.pkg.Status)
    cl,               \* the RainbondCluster object the pass fetched
    pass0,            \* history: the status the pass fetched when it started
    ops,              \* history: the operations the pass has invoked
    wrote,            \* history: the pass has called updateCRStatus
    result,           \* RequeueAfter (seconds) of the last pass, NoResult before any
    rep,              \* the progress reporter attached to the running pass
    dangling,         \* reporters that outlived their pass, each with its status object
    todo,             \* images (pull-and-push) or files (load-and-push) still to process
    attempt,          \* attempt number of the current download or image retry
    failures,         \* status writes that have failed so far
    err,              \* history: the stage whose function returned an error to handle
    calls,            \* history: the engine calls of the current PushImage stage attempt
    ctx,              \* which contexts are done: the one handed to Reconcile, the pass's own
    now,              \* metav1.Now(), a logical clock
    rv                \* ResourceVersion: of the stored record, of each writer's object

vars == <<stored, downloadPackage, pc, p, cl, pass0, ops, wrote, result, rep,
          dangling, todo, attempt, failures, err, calls, ctx, now, rv>>

(***************************************************************************)
(* Bounds of the model.                                                     *)
(***************************************************************************)
MaxImages == 2      \* entries of p.images / valid files under pkgDst
MaxDangling == 1    \* reporters tracked after their pass has returned
MaxWriteFailures == 1  \* status writes that fail in one run

(***************************************************************************)
(* Program constants.                                                       *)
(***************************************************************************)
totalImageNum == 23
MaxRetries == 3
MaxProgress == 100
NoResult == 0 - 1

Stages == <<"Init", "DownloadPackage", "UnpackPackage", "PushImage", "Ready">>
Statuses == {"Waiting", "Running", "Completed", "Failed"}

\* downloadListener.Percent as the reporter samples it
PercentSamples == {60}
\* countImages(pkgDst) as the unpack reporter samples it
NumSamples == {30}

\* RainbondCluster objects a pass can fetch (NoCluster: the Get failed); ImageRepository is the status of the
\* cluster's image-repository condition, "False" also when the condition is absent
Clusters ==
    [ConfigCompleted : BOOLEAN,
     InstallMode : {"FullOnline", "WithoutPackage"},
     ImageRepository : {"False", "True"}]

NoCluster ==
    [ConfigCompleted |-> FALSE, InstallMode |-> "WithoutPackage",
     ImageRepository |-> "False"]

(***************************************************************************)
(* The condition store.                                                     *)
(***************************************************************************)
PackageCondition(typ3, status) ==
    [Type |-> typ3, Status |-> status, Progress |-> 0, Reason |-> "", Message |-> "",
     LastHeartbeatTime |-> now, LastTransitionTime |-> now]

EmptyStatus == [Conditions |-> <<>>, ImagesPushed |-> <<>>, ImagesNumber |-> 0]

\* initPackageStatus that leaves the Ready condition Waiting
initPackageStatus_ReadyWaiting(status) ==
    [Conditions |-> <<PackageCondition("Init", status),
                      PackageCondition("DownloadPackage", status),
                      PackageCondition("UnpackPackage", status),
                      PackageCondition("PushImage", status),
                      PackageCondition("Ready", "Waiting")>>,
     ImagesPushed |-> <<>>,
     ImagesNumber |-> 0]

\* initPackageStatus with UnpackPackage and PushImage listed in the other order
initPackageStatus_Swapped(status) ==
    [Conditions |-> <<PackageCondition("Init", status),
                      PackageCondition("DownloadPackage", status),
                      PackageCondition("PushImage", status),
                      PackageCondition("UnpackPackage", status),
                      PackageCondition("Ready", status)>>,
     ImagesPushed |-> <<>>,
     ImagesNumber |-> 0]

initPackageStatus(status) ==
    [Conditions |-> <<PackageCondition("Init", status),
                      PackageCondition("DownloadPackage", status),
                      PackageCondition("UnpackPackage", status),
                      PackageCondition("PushImage", status),
                      PackageCondition("Ready", status)>>,
     ImagesPushed |-> <<>>,
     ImagesNumber |-> 0]

\* index of the first condition of the type, 0 for nil
findCondition(st, typ3) ==
    LET hits == {i \in 1..Len(st.Conditions) : st.Conditions[i].Type = typ3}
    IN IF hits = {} THEN 0 ELSE CHOOSE i \in hits : \A j \in hits : i <= j

StatusOf(st, typ3) ==
    IF findCondition(st, typ3) = 0 THEN "nil"
    ELSE st.Conditions[findCondition(st, typ3)].Status

updateConditionStatus(st, typ3, status) ==
    LET i == findCondition(st, typ3)
    IN IF i = 0 THEN st
       ELSE [st EXCEPT !.Conditions[i].Status = status,
                       !.Conditions[i].LastTransitionTime =
                            IF st.Conditions[i].Status # status THEN now ELSE @,
                       !.Conditions[i].LastHeartbeatTime = now,
                       !.Conditions[i].Progress =
                            IF status = "Completed" THEN MaxProgress ELSE @,
                       !.Conditions[i].Reason = IF status = "Completed" THEN "" ELSE @,
                       !.Conditions[i].Message = IF status = "Completed" THEN "" ELSE @]

updateConditionResion(st, typ3, resion, message) ==
    LET i == findCondition(st, typ3)
    IN IF i = 0 THEN st
       ELSE [st EXCEPT !.Conditions[i].Reason = resion,
                       !.Conditions[i].Message = message,
                       !.Conditions[i].LastHeartbeatTime = now]

\* the progress value after the upper clamp of updateConditionProgress
ClampProgress(progress) == IF progress > MaxProgress THEN MaxProgress ELSE progress

\* index of the condition updateConditionProgress changes, 0 when it returns false
ProgressTarget(st, typ3, progress) ==
    LET hits == {i \in 1..Len(st.Conditions) :
                    /\ st.Conditions[i].Type = typ3
                    /\ st.Conditions[i].Progress # ClampProgress(progress)}
    IN IF hits = {} THEN 0 ELSE CHOOSE i \in hits : \A j \in hits : i <= j

\* updateConditionProgress that reports a change on every call
ProgressChanged_Always(st, typ3, progress) == TRUE

\* the bool updateConditionProgress returns
ProgressChanged(st, typ3, progress) == ProgressTarget(st, typ3, progress) # 0

\* the status updateConditionProgress leaves: the loop stamps every condition of
\* the type it visits and returns at the first one whose progress it changes
updateConditionProgress(st, typ3, progress) ==
    LET i == ProgressTarget(st, typ3, progress)
        visited(j) == st.Conditions[j].Type = typ3 /\ (i = 0 \/ j <= i)
    IN [st EXCEPT !.Conditions =
            [j \in 1..Len(st.Conditions) |->
                IF ~visited(j) THEN st.Conditions[j]
                ELSE [st.Conditions[j] EXCEPT
                        !.LastHeartbeatTime = now,
                        !.Progress = IF j = i THEN ClampProgress(progress) ELSE @]]]

\* the stored record after updateCRStatus(st): written whole, or left when the
\* write fails (conflict retries exhausted, Get error, timeout)
updateCRStatus(old, st, ok) == IF ok THEN st ELSE old

\* checkStatusCanReturn without the return on a Running condition
checkStatusCanReturn_IgnoreRunning(st) ==
    LET n == Len(st.Conditions)
        completedCount == Cardinality({i \in 1..n : st.Conditions[i].Status = "Completed"})
    IN IF n = 0
       THEN [updateStatus |-> TRUE, re |-> "empty", Status |-> initPackageStatus("Waiting")]
       ELSE [updateStatus |-> FALSE,
             re |-> IF completedCount = n THEN "empty" ELSE "nil",
             Status |-> st]

\* checkStatusCanReturn returning the empty Result on a Failed condition too
checkStatusCanReturn_FailedReturns(st) ==
    LET n == Len(st.Conditions)
        stop == {i \in 1..n : st.Conditions[i].Status \in {"Running", "Failed"}}
        completedCount == Cardinality({i \in 1..n : st.Conditions[i].Status = "Completed"})
    IN IF n = 0
       THEN [updateStatus |-> TRUE, re |-> "empty", Status |-> initPackageStatus("Waiting")]
       ELSE [updateStatus |-> FALSE,
             re |-> IF stop # {} \/ completedCount = n THEN "empty" ELSE "nil",
             Status |-> st]

\* checkStatusCanReturn that does not initialize an empty condition list
checkStatusCanReturn_NoInit(st) ==
    LET n == Len(st.Conditions)
        stop == {i \in 1..n : st.Conditions[i].Status \in {"Running", "Failed"}}
        first == CHOOSE i \in stop : \A j \in stop : i <= j
        completedCount == Cardinality({i \in 1..n : st.Conditions[i].Status = "Completed"})
    IN IF stop # {}
       THEN [updateStatus |-> FALSE,
             re |-> IF st.Conditions[first].Status = "Running" THEN "empty" ELSE "nil",
             Status |-> st]
       ELSE [updateStatus |-> FALSE,
             re |-> IF completedCount = n THEN "empty" ELSE "nil",
             Status |-> st]

\* checkStatusCanReturn that lets the pass go on when every condition is Completed
checkStatusCanReturn_CompletedProceeds(st) ==
    LET n == Len(st.Conditions)
        stop == {i \in 1..n : st.Conditions[i].Status \in {"Running", "Failed"}}
        first == CHOOSE i \in stop : \A j \in stop : i <= j
    IN IF n = 0
       THEN [updateStatus |-> TRUE, re |-> "empty", Status |-> initPackageStatus("Waiting")]
       ELSE [updateStatus |-> FALSE,
             re |-> IF stop # {} /\ st.Conditions[first].Status = "Running"
                    THEN "empty" ELSE "nil",
             Status |-> st]

(***************************************************************************)
(* checkStatusCanReturn: [updateStatus, re, Status]; re is "nil" or the     *)
(* empty Result.                                                            *)
(***************************************************************************)
checkStatusCanReturn(st) ==
    LET n == Len(st.Conditions)
        stop == {i \in 1..n : st.Conditions[i].Status \in {"Running", "Failed"}}
        first == CHOOSE i \in stop : \A j \in stop : i <= j
        completedCount == Cardinality({i \in 1..n : st.Conditions[i].Status = "Completed"})
    IN IF n = 0
       THEN [updateStatus |-> TRUE, re |-> "empty", Status |-> initPackageStatus("Waiting")]
       ELSE IF stop # {}
            THEN [updateStatus |-> FALSE,
                  re |-> IF st.Conditions[first].Status = "Running" THEN "empty" ELSE "nil",
                  Status |-> st]
            ELSE [updateStatus |-> FALSE,
                  re |-> IF completedCount = n THEN "empty" ELSE "nil",
                  Status |-> st]

\* isImageRepositoryReady that does not look at the condition's status
isImageRepositoryReady_AnyStatus(c) == c.ImageRepository \in {"False", "True"}

isImageRepositoryReady(c) == c.ImageRepository = "True"

\* configByCluster without the image-repository check
configByCluster_NoRepositoryCheck(c) ==
    IF ~c.ConfigCompleted THEN "errorClusterConfigNotReady" ELSE ""

\* "" for nil
configByCluster(c) ==
    IF ~c.ConfigCompleted THEN "errorClusterConfigNotReady"
    ELSE IF ~isImageRepositoryReady(c) THEN "errorClusterConfigNoLocalHub"
    ELSE ""

checkClusterConfig(c) == configByCluster(c)

\* the keys of p.images, of which the model takes MaxImages
Images == 1..MaxImages

\* neither context has been cancelled
NoneDone == [request |-> FALSE, pass |-> FALSE]

\* the writers of the status: the pass, a reporter that outlived its pass
Writers == {"pass", "reporter"}

\* the record and every object at the first version; read is history: the version
\* of the record a writer's in-memory status was read from, or written as
NoVersions ==
    [latest |-> 1, object |-> [w \in Writers |-> 1], read |-> [w \in Writers |-> 1]]

\* no attempt of the retried closure made yet
NoAttempt == [image |-> 0, try |-> 0, missing |-> FALSE, made |-> {}, ok |-> FALSE]

\* no engine call made yet for any image: the images handed to the retried closure,
\* whether an attempt has failed, the last attempt (its image, its number, whether
\* it found the image missing locally, the engine calls it made, whether it
\* succeeded), and the images that were pulled, found locally, pushed
NoCalls ==
    [tried |-> {}, retried |-> FALSE, last |-> NoAttempt,
     pulled |-> {}, found |-> {}, pushed |-> {}]

Init ==
    /\ now = 0
    /\ ctx = NoneDone
    /\ rv = NoVersions
    /\ stored = EmptyStatus
    /\ downloadPackage \in BOOLEAN
    /\ pc = "idle"
    /\ p = EmptyStatus
    /\ cl = NoCluster
    /\ pass0 = EmptyStatus
    /\ ops = {}
    /\ wrote = FALSE
    /\ result = NoResult
    /\ rep = "none"
    /\ dangling = {}
    /\ todo = <<>>
    /\ attempt = 0
    /\ failures = 0
    /\ err = ""
    /\ calls = NoCalls

\* the outcomes a status write can have after n more failed writes
WriteOutcomes(n) == IF failures + n < MaxWriteFailures THEN BOOLEAN ELSE {TRUE}

Failed(ok) == IF ok THEN 0 ELSE 1

\* the pass returns: Reconcile's reconcile.Result
Return(after) ==
    /\ pc' = "done"
    /\ result' = after

(***************************************************************************)
(* Reconcile, lines 82-145: from the fetch of the package and the cluster   *)
(* to the creation of the package handle.                                   *)
(***************************************************************************)
Reconcile ==
    /\ pc = "idle"
    /\ \E getOk \in BOOLEAN, c \in Clusters, dockerOk \in BOOLEAN, ok \in WriteOutcomes(0) :
        LET chk == checkStatusCanReturn(stored)
        IN /\ pass0' = stored
           /\ ops' = {}
           /\ cl' = IF getOk THEN c ELSE NoCluster
           /\ UNCHANGED <<downloadPackage, rv, ctx, now, rep, dangling, todo, attempt, err, calls>>
           /\ IF ~getOk \/ ~c.ConfigCompleted
              THEN /\ p' = stored
                   /\ wrote' = FALSE
                   /\ Return(3)
                   /\ UNCHANGED <<stored, failures>>
              ELSE IF c.InstallMode = "FullOnline"
              THEN /\ p' = initPackageStatus("Completed")
                   /\ wrote' = TRUE
                   /\ stored' = updateCRStatus(stored, p', ok)
                   /\ failures' = failures + Failed(ok)
                   /\ Return(IF ok THEN 0 ELSE 5)
              ELSE IF chk.updateStatus
              THEN /\ p' = chk.Status
                   /\ wrote' = TRUE
                   /\ stored' = updateCRStatus(stored, p', ok)
                   /\ failures' = failures + Failed(ok)
                   /\ Return(IF ok THEN 0 ELSE 5)
              ELSE IF chk.re # "nil"
              THEN /\ p' = stored
                   /\ wrote' = FALSE
                   /\ Return(0)
                   /\ UNCHANGED <<stored, failures>>
              ELSE IF ~dockerOk
              THEN /\ p' = stored
                   /\ wrote' = FALSE
                   /\ Return(5)
                   /\ UNCHANGED <<stored, failures>>
              ELSE /\ p' = stored
                   /\ wrote' = FALSE
                   /\ pc' = "handle"
                   /\ UNCHANGED <<stored, result, failures>>

\* Reconcile has returned its Result; the pass's package handle is dropped
ReconcileReturn ==
    /\ pc = "done"
    /\ pc' = "idle"
    /\ p' = EmptyStatus
    /\ cl' = NoCluster
    /\ pass0' = EmptyStatus
    /\ ops' = {}
    /\ wrote' = FALSE
    /\ result' = NoResult
    /\ todo' = <<>>
    /\ attempt' = 0
    /\ err' = ""
    /\ calls' = NoCalls
    /\ UNCHANGED <<stored, downloadPackage, rv, ctx, now, rep, dangling, failures>>

(***************************************************************************)
(* handle, lines 545-566: the prerequisites and setInitStatus.              *)
(***************************************************************************)
\* setInitStatus that leaves Init as it is
setInitStatus_Skipped(st) == st

\* setInitStatus assigns the status of Init in place
setInitStatus(st) ==
    LET i == findCondition(st, "Init")
    IN IF i # 0 /\ st.Conditions[i].Status # "Completed"
       THEN [st EXCEPT !.Conditions[i].Status = "Completed"]
       ELSE st

\* handle leaving the stage Waiting, with the reason and the message, on an error
FailCondition_Waiting(st, typ3, message) ==
    updateConditionResion(updateConditionStatus(st, typ3, "Waiting"), typ3, "err", message)

\* handle marking the stage Failed without a reason and a message
FailCondition_NoReason(st, typ3, message) == updateConditionStatus(st, typ3, "Failed")

\* the status handle leaves when a stage function has returned an error
FailCondition(st, typ3, message) ==
    updateConditionResion(updateConditionStatus(st, typ3, "Failed"), typ3, "err", message)

\* a reporter outlives its pass together with the status object it writes
Detach(st, typ3, stopped) ==
    IF Cardinality(dangling) < MaxDangling
    THEN dangling \cup {[stage |-> typ3, st |-> st, stop |-> stopped]}
    ELSE dangling

\* one call of p.updateCRStatus() on the pass's status st
Write(st, ok) ==
    /\ stored' = updateCRStatus(stored, st, ok)
    /\ failures' = failures + Failed(ok)
    /\ wrote' = TRUE

\* handle's tail after a failed stage: Failed, reason, write, error to Reconcile
StageFailed(st, typ3, message, ok) ==
    /\ p' = FailCondition(st, typ3, message)
    /\ Write(p', ok)
    /\ err' = typ3
    /\ Return(8)

\* handle's tail after a successful stage: Completed, return p.updateCRStatus()
StageCompleted(typ3, ok) ==
    /\ p' = updateConditionStatus(p, typ3, "Completed")
    /\ Write(p', ok)
    /\ UNCHANGED err
    /\ Return(IF ok THEN 0 ELSE 8)

handle ==
    /\ pc = "handle"
    /\ UNCHANGED <<downloadPackage, rv, ctx, now, cl, pass0, ops, rep, dangling, todo, attempt, err, calls>>
    /\ IF checkClusterConfig(cl) # ""
       THEN /\ Return(8)
            /\ UNCHANGED <<stored, p, wrote, failures>>
       ELSE IF setInitStatus(p) = p
       THEN /\ pc' = "canDownload"
            /\ UNCHANGED <<stored, p, wrote, result, failures>>
       ELSE \E ok1 \in WriteOutcomes(0) :
            IF ok1
            THEN /\ p' = setInitStatus(p)
                 /\ Write(p', TRUE)
                 /\ pc' = "canDownload"
                 /\ UNCHANGED result
            ELSE \E ok2 \in WriteOutcomes(1) :
                 /\ p' = FailCondition(setInitStatus(p), "Init", "set init status failure")
                 /\ stored' = updateCRStatus(stored, p', ok2)
                 /\ failures' = failures + 1 + Failed(ok2)
                 /\ wrote' = TRUE
                 /\ Return(8)

(***************************************************************************)
(* The gatekeeper and the download stage, lines 412-430, 490-542, 567-579.  *)
(***************************************************************************)
\* canDownload that takes the download as required whatever the flag says
canDownloadResult_NoShortcut(st, dl) ==
    IF StatusOf(st, "DownloadPackage") \in {"nil", "Completed"}
    THEN [can |-> FALSE, write |-> FALSE, Status |-> st]
    ELSE [can |-> TRUE, write |-> TRUE,
          Status |-> updateConditionStatus(st, "DownloadPackage", "Running")]

\* canDownload that does not select a stage that is Running already
canDownloadResult_SkipRunning(st, dl) ==
    IF StatusOf(st, "DownloadPackage") \in {"nil", "Completed", "Running"}
    THEN [can |-> FALSE, write |-> FALSE, Status |-> st]
    ELSE IF ~dl
    THEN [can |-> FALSE, write |-> TRUE,
          Status |-> updateConditionStatus(st, "DownloadPackage", "Completed")]
    ELSE [can |-> TRUE, write |-> TRUE,
          Status |-> updateConditionStatus(st, "DownloadPackage", "Running")]

\* canDownload on the status st with p.downloadPackage = dl: the bool it returns,
\* whether it calls updateCRStatus, and the status it leaves
canDownloadResult(st, dl) ==
    IF StatusOf(st, "DownloadPackage") \in {"nil", "Completed"}
    THEN [can |-> FALSE, write |-> FALSE, Status |-> st]
    ELSE IF ~dl
    THEN [can |-> FALSE, write |-> TRUE,
          Status |-> updateConditionStatus(st, "DownloadPackage", "Completed")]
    ELSE [can |-> TRUE, write |-> TRUE,
          Status |-> updateConditionStatus(st, "DownloadPackage", "Running")]

canUnpackResult(st, dl) ==
    IF \/ StatusOf(st, "DownloadPackage") # "Completed"
       \/ StatusOf(st, "UnpackPackage") \in {"nil", "Completed"}
    THEN [can |-> FALSE, write |-> FALSE, Status |-> st]
    ELSE IF ~dl
    THEN [can |-> FALSE, write |-> TRUE,
          Status |-> updateConditionStatus(st, "UnpackPackage", "Completed")]
    ELSE [can |-> TRUE, write |-> TRUE,
          Status |-> updateConditionStatus(st, "UnpackPackage", "Running")]

\* canPushImage that looks at the PushImage condition only
canPushImageResult_NoUnpackCheck(st) ==
    [can |-> StatusOf(st, "PushImage") \notin {"nil", "Completed"},
     write |-> FALSE, Status |-> st]

canPushImageResult(st) ==
    [can |-> /\ StatusOf(st, "UnpackPackage") = "Completed"
             /\ StatusOf(st, "PushImage") \notin {"nil", "Completed"},
     write |-> FALSE, Status |-> st]

canReadyResult(st) == StatusOf(st, "PushImage") = "Completed"

\* the gatekeeper sequence of handle on the status st: the stage it selects ("none"
\* when no predicate returns true) and the status it leaves
Gatekeeper(st, dl) ==
    LET d == canDownloadResult(st, dl)
        u == canUnpackResult(d.Status, dl)
        i == canPushImageResult(u.Status)
    IN IF d.can THEN [stage |-> "DownloadPackage", Status |-> d.Status]
       ELSE IF u.can THEN [stage |-> "UnpackPackage", Status |-> u.Status]
       ELSE IF i.can THEN [stage |-> "PushImage", Status |-> i.Status]
       ELSE IF canReadyResult(i.Status) THEN [stage |-> "Ready", Status |-> i.Status]
       ELSE [stage |-> "none", Status |-> i.Status]

canDownload ==
    /\ pc = "canDownload"
    /\ UNCHANGED <<downloadPackage, rv, ctx, now, cl, pass0, ops, result, rep, dangling, todo, attempt,
                   err, calls>>
    /\ LET r == canDownloadResult(p, downloadPackage)
       IN /\ p' = r.Status
          /\ pc' = IF r.can THEN "donwnloadPackage" ELSE "canUnpack"
          /\ IF r.write
             THEN \E ok \in WriteOutcomes(0) : Write(p', ok)
             ELSE UNCHANGED <<stored, wrote, failures>>

\* donwnloadPackage after which handle falls through to canUnpack instead of returning
donwnloadPackage_NoReturn ==
    /\ pc = "donwnloadPackage"
    /\ ops' = ops \cup {"donwnloadPackage"}
    /\ UNCHANGED <<downloadPackage, rv, ctx, now, cl, pass0, dangling, todo, err, calls>>
    /\ \E md5ok \in BOOLEAN :
        IF md5ok
        THEN \E ok \in WriteOutcomes(0) :
             /\ p' = updateConditionStatus(p, "DownloadPackage", "Completed")
             /\ Write(p', ok)
             /\ pc' = "canUnpack"
             /\ UNCHANGED <<result, rep, attempt>>
        ELSE /\ rep' = "DownloadPackage"
             /\ attempt' = 1
             /\ pc' = "Download"
             /\ UNCHANGED <<stored, p, wrote, result, failures>>

\* donwnloadPackage up to the start of the transfer
donwnloadPackage ==
    /\ pc = "donwnloadPackage"
    /\ ops' = ops \cup {"donwnloadPackage"}
    /\ UNCHANGED <<downloadPackage, rv, ctx, now, cl, pass0, dangling, todo, calls>>
    /\ \E md5ok \in BOOLEAN :
        IF md5ok
        THEN \E ok \in WriteOutcomes(0) :
             /\ StageCompleted("DownloadPackage", ok)
             /\ UNCHANGED <<rep, attempt>>
        ELSE /\ rep' = "DownloadPackage"
             /\ attempt' = 1
             /\ pc' = "Download"
             /\ UNCHANGED <<stored, p, wrote, result, failures, err>>

\* the call history after transfer number try of the bundle: the number of the
\* transfer, whether it succeeded, whether a transfer has failed
RecordTransfer(c, try, ok) ==
    [c EXCEPT !.retried = (@ \/ ~ok),
              !.last = [image |-> 0, try |-> try, missing |-> FALSE,
                        made |-> {"Download"}, ok |-> ok]]

\* Download that is not called again after the first transfer has failed
Download_NoRetry ==
    /\ pc = "Download"
    /\ ops' = ops \cup {"Download"}
    /\ UNCHANGED <<downloadPackage, rv, ctx, now, cl, pass0, todo>>
    /\ \E dok \in BOOLEAN, ok \in WriteOutcomes(0) :
        /\ calls' = RecordTransfer(calls, attempt, dok)
        /\ rep' = "none"
        /\ UNCHANGED attempt
        /\ IF dok
           THEN /\ StageCompleted("DownloadPackage", ok)
                /\ dangling' = Detach(p', "DownloadPackage", TRUE)
           ELSE /\ StageFailed(p, "DownloadPackage", "download package failure", ok)
                /\ dangling' = Detach(p', "DownloadPackage", FALSE)

\* downloadListener.Download(), first call and retry
Download ==
    /\ pc = "Download"
    /\ ops' = ops \cup {"Download"}
    /\ UNCHANGED <<downloadPackage, rv, ctx, now, cl, pass0, todo>>
    /\ \E dok \in BOOLEAN, ok \in WriteOutcomes(0) :
        /\ calls' = RecordTransfer(calls, attempt, dok)
        /\ IF dok
           THEN /\ StageCompleted("DownloadPackage", ok)
                /\ rep' = "none"
                /\ dangling' = Detach(p', "DownloadPackage", TRUE)
                /\ UNCHANGED attempt
           ELSE IF attempt = 1
           THEN /\ p' = updateConditionResion(p, "Init", "err",
                           "download rainbond package error, will retry")
                /\ Write(p', ok)
                /\ attempt' = 2
                /\ UNCHANGED <<pc, result, rep, dangling, err>>
           ELSE /\ StageFailed(p, "DownloadPackage", "download package failure", ok)
                /\ rep' = "none"
                /\ dangling' = Detach(p', "DownloadPackage", FALSE)
                /\ UNCHANGED attempt

(***************************************************************************)
(* The progress reporters, lines 509-527 and 636-654.                       *)
(***************************************************************************)
\* the download reporter storing the raw percentage
realProgress_Raw(progress) == progress

\* int32(progress) - int32(float64(progress)*0.05): the conversion truncates
realProgress(progress) == progress - ((progress * 5) \div 100)

\* the values a reporter of the stage can compute in one tick
ReporterProgress(typ3) ==
    IF typ3 = "DownloadPackage"
    THEN {realProgress(pct) : pct \in PercentSamples}
    ELSE {(num * 100) \div totalImageNum : num \in NumSamples}

\* a tick of the reporter of the running stage, on the pass's status
ReporterTick ==
    /\ rep # "none"
    /\ UNCHANGED <<downloadPackage, rv, ctx, now, pc, cl, pass0, ops, result, rep, dangling, todo, attempt,
                   err, calls>>
    /\ \E progress \in ReporterProgress(rep), ok \in WriteOutcomes(0) :
        /\ ProgressChanged(p, rep, progress)
        /\ p' = updateConditionProgress(p, rep, progress)
        /\ Write(p', ok)

\* a tick of a reporter whose pass has returned, on the status object it kept; a
\* reporter that was sent the stop signal finishes the tick it is in and ends
DanglingTick ==
    /\ UNCHANGED <<downloadPackage, rv, ctx, now, pc, p, cl, pass0, ops, wrote, result, rep, todo, attempt,
                   err, calls>>
    /\ \E d \in dangling, ok \in WriteOutcomes(0) :
        \E progress \in ReporterProgress(d.stage) :
            /\ ProgressChanged(d.st, d.stage, progress)
            /\ dangling' = (dangling \ {d}) \cup
                    (IF d.stop THEN {}
                     ELSE {[d EXCEPT !.st = updateConditionProgress(d.st, d.stage, progress)]})
            /\ stored' = updateCRStatus(stored,
                            updateConditionProgress(d.st, d.stage, progress), ok)
            /\ failures' = failures + Failed(ok)

\* a reporter that was sent the stop signal takes it and ends
DanglingStop ==
    /\ UNCHANGED <<stored, downloadPackage, rv, ctx, now, pc, p, cl, pass0, ops, wrote, result, rep,
                   todo, attempt, failures, err, calls>>
    /\ \E d \in dangling :
        /\ d.stop
        /\ dangling' = dangling \ {d}

(***************************************************************************)
(* The unpack stage, lines 432-455, 581-592, 626-661.                       *)
(***************************************************************************)
canUnpack ==
    /\ pc = "canUnpack"
    /\ UNCHANGED <<downloadPackage, rv, ctx, now, cl, pass0, ops, result, rep, dangling, todo, attempt,
                   err, calls>>
    /\ LET r == canUnpackResult(p, downloadPackage)
       IN /\ p' = r.Status
          /\ pc' = IF r.can THEN "untartar" ELSE "canPushImage"
          /\ IF r.write
             THEN \E ok \in WriteOutcomes(0) : Write(p', ok)
             ELSE UNCHANGED <<stored, wrote, failures>>

\* untartar up to the start of the extraction
untartar ==
    /\ pc = "untartar"
    /\ ops' = ops \cup {"untartar"}
    /\ UNCHANGED <<downloadPackage, rv, ctx, now, cl, pass0, dangling, todo, attempt, calls>>
    /\ \E openOk \in BOOLEAN :
        IF ~openOk
        THEN \E ok \in WriteOutcomes(0) :
             /\ StageFailed(p, "UnpackPackage", "unpack package failure", ok)
             /\ UNCHANGED rep
        ELSE /\ rep' = "UnpackPackage"
             /\ pc' = "Untartar"
             /\ UNCHANGED <<stored, p, wrote, result, failures, err>>

\* tarutil.Untartar
Untartar ==
    /\ pc = "Untartar"
    /\ ops' = ops \cup {"Untartar"}
    /\ rep' = "none"
    /\ UNCHANGED <<downloadPackage, rv, ctx, now, cl, pass0, todo, attempt, calls>>
    /\ \E uok \in BOOLEAN, ok \in WriteOutcomes(0) :
        IF uok
        THEN /\ StageCompleted("UnpackPackage", ok)
             /\ dangling' = Detach(p', "UnpackPackage", TRUE)
        ELSE /\ StageFailed(p, "UnpackPackage", "unpack package failure", ok)
             /\ dangling' = Detach(p', "UnpackPackage", FALSE)

(***************************************************************************)
(* The image distributor, lines 456-468, 594-616, 662-761.                  *)
(***************************************************************************)
\* Retry that allows one attempt more
RetryExhausted_OneMore(n) == n > MaxRetries

\* retryutil.Retry(interval, MaxRetries, f): f is called again after a failed
\* attempt until MaxRetries attempts have been made
RetryExhausted(n) == n >= MaxRetries

\* the orders in which the range over the map p.images can deliver the images
Orders == {o \in [1..MaxImages -> Images] : \A i, j \in 1..MaxImages : o[i] = o[j] => i = j}

\* countImages(pkgDst): the directory holds the bundle's image files, or none
FileCounts == {0, MaxImages}

\* the files filepath.Walk delivers, in lexical order
Files(n) == [i \in 1..n |-> i]

\* the progress computed over the expected total of the bundle
ImageProgress_OfTotal(st) == (Len(st.ImagesPushed) * 100) \div totalImageNum

\* count * 100 / p.pkg.Status.ImagesNumber
ImageProgress(st) == (Len(st.ImagesPushed) * 100) \div st.ImagesNumber

\* an append that puts the new entry in front
AppendPushed_Prepend(st, image) == [st EXCEPT !.ImagesPushed = <<image>> \o @]

\* the status after one image has been pushed, before updateConditionProgress
AppendPushed(st, image) == [st EXCEPT !.ImagesPushed = Append(@, image)]

\* handleImgae that pulls the image whether it exists locally or not
PullAndPushCalls_AlwaysPull(exists, outcome) ==
    {"ImageList"}
    \cup (IF outcome # "ImageList" THEN {"imagePull"} ELSE {})
    \cup (IF outcome \in {"ImageTag", "imagePush", "ok"} THEN {"ImageTag"} ELSE {})
    \cup (IF outcome \in {"imagePush", "ok"} THEN {"imagePush"} ELSE {})

\* the engine calls of one pull-and-push attempt that ends at `outcome`
PullAndPushCalls(exists, outcome) ==
    {"ImageList"}
    \cup (IF ~exists /\ outcome # "ImageList" THEN {"imagePull"} ELSE {})
    \cup (IF outcome \in {"ImageTag", "imagePush", "ok"} THEN {"ImageTag"} ELSE {})
    \cup (IF outcome \in {"imagePush", "ok"} THEN {"imagePush"} ELSE {})

\* the engine calls of one load-and-push attempt that ends at `outcome`
LoadAndPushCalls(outcome) ==
    {"imageLoad"}
    \cup (IF outcome \in {"ImageTag", "imagePush", "ok"} THEN {"ImageTag"} ELSE {})
    \cup (IF outcome \in {"imagePush", "ok"} THEN {"imagePush"} ELSE {})

\* the call history after attempt number try of the retried closure on the image:
\* the engine calls it made, whether it found the image locally or missing, whether
\* its push succeeded, whether the attempt succeeded
RecordAttempt(c, image, try, made, found, missing, pushOk, ok) ==
    [tried |-> c.tried \cup {image},
     retried |-> (c.retried \/ ~ok),
     last |-> [image |-> image, try |-> try, missing |-> missing, made |-> made, ok |-> ok],
     pulled |-> c.pulled \cup (IF "imagePull" \in made THEN {image} ELSE {}),
     found |-> c.found \cup (IF found THEN {image} ELSE {}),
     pushed |-> c.pushed \cup (IF pushOk THEN {image} ELSE {})]

canPushImage ==
    /\ pc = "canPushImage"
    /\ UNCHANGED <<stored, downloadPackage, rv, ctx, now, cl, pass0, wrote, result, rep, dangling, failures,
                   err>>
    /\ IF ~canPushImageResult(p).can
       THEN /\ pc' = "canReady"
            /\ UNCHANGED <<p, ops, todo, attempt, calls>>
       ELSE IF downloadPackage
       THEN \E n \in FileCounts :
            /\ p' = [p EXCEPT !.ImagesNumber = n, !.ImagesPushed = <<>>]
            /\ ops' = ops \cup {"imagesLoadAndPush"}
            /\ todo' = Files(n)
            /\ attempt' = 1
            /\ calls' = NoCalls
            /\ pc' = "imagesLoadAndPush"
       ELSE \E o \in Orders :
            /\ p' = [p EXCEPT !.ImagesNumber = MaxImages, !.ImagesPushed = <<>>]
            /\ ops' = ops \cup {"imagePullAndPush"}
            /\ todo' = o
            /\ attempt' = 1
            /\ calls' = NoCalls
            /\ pc' = "imagePullAndPush"

\* one attempt of handleImgae on the next image, or the end of the loop
imagePullAndPush ==
    /\ pc = "imagePullAndPush"
    /\ UNCHANGED <<downloadPackage, rv, ctx, now, cl, pass0, rep, dangling>>
    /\ IF todo = <<>>
       THEN \E ok \in WriteOutcomes(0) :
            /\ StageCompleted("PushImage", ok)
            /\ UNCHANGED <<ops, todo, attempt, calls>>
       ELSE \E exists \in BOOLEAN,
               outcome \in {"ImageList", "imagePull", "ImageTag", "imagePush", "ok"} :
            /\ outcome = "imagePull" => ~exists
            /\ outcome = "ImageList" => exists
            /\ ops' = ops \cup PullAndPushCalls(exists, outcome)
            /\ calls' = RecordAttempt(calls, Head(todo), attempt,
                                      PullAndPushCalls(exists, outcome),
                                      exists /\ outcome # "ImageList", ~exists,
                                      outcome = "ok", outcome = "ok")
            /\ IF outcome # "ok"
               THEN IF ~RetryExhausted(attempt)
                    THEN /\ attempt' = attempt + 1
                         /\ UNCHANGED <<stored, pc, p, wrote, result, todo, failures, err>>
                    ELSE \E ok \in WriteOutcomes(0) :
                         /\ StageFailed(p, "PushImage", "pull and push images failure", ok)
                         /\ UNCHANGED <<todo, attempt>>
               ELSE LET pushed == AppendPushed(p, Head(todo))
                        progress == ImageProgress(pushed)
                        next == updateConditionProgress(pushed, "PushImage", progress)
                    IN IF ~ProgressChanged(pushed, "PushImage", progress)
                       THEN /\ p' = next
                            /\ todo' = Tail(todo)
                            /\ attempt' = 1
                            /\ UNCHANGED <<stored, pc, wrote, result, failures, err>>
                       ELSE \E ok1 \in WriteOutcomes(0) :
                            IF ok1
                            THEN /\ p' = next
                                 /\ Write(next, TRUE)
                                 /\ todo' = Tail(todo)
                                 /\ attempt' = 1
                                 /\ UNCHANGED <<pc, result, err>>
                            ELSE \E ok2 \in WriteOutcomes(1) :
                                 /\ p' = FailCondition(next, "PushImage",
                                            "pull and push images failure")
                                 /\ stored' = updateCRStatus(stored, p', ok2)
                                 /\ failures' = failures + 1 + Failed(ok2)
                                 /\ wrote' = TRUE
                                 /\ err' = "PushImage"
                                 /\ Return(8)
                                 /\ UNCHANGED <<todo, attempt>>

\* one attempt of the retried closure f on the next file, or the end of the walk
imagesLoadAndPush ==
    /\ pc = "imagesLoadAndPush"
    /\ UNCHANGED <<downloadPackage, rv, ctx, now, cl, pass0, rep, dangling>>
    /\ IF todo = <<>>
       THEN \E ok \in WriteOutcomes(0) :
            /\ StageCompleted("PushImage", ok)
            /\ UNCHANGED <<ops, todo, attempt, calls>>
       ELSE \E outcome \in {"imageLoad", "newImageWithNewDomain", "ImageTag", "imagePush", "ok"},
               ok1 \in WriteOutcomes(0) :
            LET pushed == IF outcome = "ok" THEN AppendPushed(p, Head(todo)) ELSE p
                progress == ImageProgress(pushed)
                changed == outcome = "ok" /\ ProgressChanged(pushed, "PushImage", progress)
                next == IF outcome = "ok"
                        THEN updateConditionProgress(pushed, "PushImage", progress)
                        ELSE p
                wfail == IF changed /\ ~ok1 THEN 1 ELSE 0
                failed == outcome # "ok" \/ wfail = 1
            IN /\ ops' = ops \cup LoadAndPushCalls(outcome)
               /\ calls' = RecordAttempt(calls, Head(todo), attempt, LoadAndPushCalls(outcome),
                                         FALSE, FALSE, outcome = "ok", ~failed)
               /\ IF failed /\ RetryExhausted(attempt)
                  THEN \E ok2 \in WriteOutcomes(wfail) :
                       /\ p' = FailCondition(next, "PushImage", "load and push images failure")
                       /\ stored' = updateCRStatus(stored, p', ok2)
                       /\ failures' = failures + wfail + Failed(ok2)
                       /\ wrote' = TRUE
                       /\ err' = "PushImage"
                       /\ Return(8)
                       /\ UNCHANGED <<todo, attempt>>
                  ELSE /\ p' = next
                       /\ stored' = IF changed /\ ok1 THEN next ELSE stored
                       /\ failures' = failures + wfail
                       /\ wrote' = (wrote \/ changed)
                       /\ todo' = IF failed THEN todo ELSE Tail(todo)
                       /\ attempt' = IF failed THEN attempt + 1 ELSE 1
                       /\ UNCHANGED <<pc, result, err>>

(***************************************************************************)
(* canReady and the end of handle, lines 470-475, 618-624.                  *)
(***************************************************************************)
canReady ==
    /\ pc = "canReady"
    /\ UNCHANGED <<downloadPackage, rv, ctx, now, cl, pass0, ops, rep, dangling, todo, attempt, calls>>
    /\ IF canReadyResult(p)
       THEN \E ok \in WriteOutcomes(0) : StageCompleted("Ready", ok)
       ELSE /\ Return(0)
            /\ UNCHANGED <<stored, p, wrote, failures, err>>

Next ==
    \/ Reconcile
    \/ ReconcileReturn
    \/ handle
    \/ canDownload
    \/ donwnloadPackage
    \/ Download
    \/ ReporterTick
    \/ DanglingTick
    \/ DanglingStop
    \/ canUnpack
    \/ untartar
    \/ Untartar
    \/ canPushImage
    \/ imagePullAndPush
    \/ imagesLoadAndPush
    \/ canReady

Spec == Init /\ [][Next]_vars


(***************************************************************************)
(* A call of updateConditionProgress on its own: any stage, any input, and   *)
(* what its caller does with the bool it returns.                           *)
(***************************************************************************)
InputMargin == 3

ProgressInputs == (0 - InputMargin)..(MaxProgress + InputMargin)

InitProgress ==
    /\ now = 0
    /\ ctx = NoneDone
    /\ rv = NoVersions
    /\ stored = EmptyStatus
    /\ downloadPackage = FALSE
    /\ pc = "call"
    /\ p \in {initPackageStatus("Waiting"), initPackageStatus("Completed")}
    /\ cl = NoCluster
    /\ pass0 = p
    /\ ops = {}
    /\ wrote = FALSE
    /\ result = NoResult
    /\ rep = "none"
    /\ dangling = {}
    /\ \E typ3 \in {Stages[i] : i \in 1..Len(Stages)}, progress \in ProgressInputs :
        todo = <<typ3, progress>>
    /\ attempt = 0
    /\ failures = 0
    /\ err = ""
    /\ calls = NoCalls

\* p.updateConditionProgress(todo[1], todo[2]); result is 1 when it returns true
CallUpdateConditionProgress ==
    /\ pc = "call"
    /\ pc' = "returned"
    /\ p' = updateConditionProgress(p, todo[1], todo[2])
    /\ result' = IF ProgressChanged(p, todo[1], todo[2]) THEN 1 ELSE 0
    /\ UNCHANGED <<stored, downloadPackage, rv, ctx, now, cl, pass0, ops, wrote, rep, dangling, todo,
                   attempt, failures, err, calls>>

\* the caller's use of the bool, lines 517-522, 644-649, 697-701, 748-752:
\* p.updateCRStatus() when it is true, nothing otherwise
PersistProgress ==
    /\ pc = "returned"
    /\ pc' = "done"
    /\ IF result = 1
       THEN \E ok \in WriteOutcomes(0) : Write(p, ok)
       ELSE UNCHANGED <<stored, failures, wrote>>
    /\ UNCHANGED <<downloadPackage, rv, ctx, now, p, cl, pass0, ops, result, rep, dangling, todo,
                   attempt, err, calls>>

NextProgress ==
    \/ CallUpdateConditionProgress
    \/ PersistProgress

SpecProgress == InitProgress /\ [][NextProgress]_vars

(***************************************************************************)
(* The gatekeeper on its own: any condition set, both values of the flag,   *)
(* evaluated twice in a row with nothing in between.                        *)
(***************************************************************************)
Present(c) == c.Status # "absent"

\* the condition sets: per stage a condition of any status, or no condition
ConditionSets ==
    {[initPackageStatus("Waiting") EXCEPT
        !.Conditions = SelectSeq([i \in 1..Len(Stages) |-> PackageCondition(Stages[i], f[i])],
                                 Present)] :
        f \in [1..Len(Stages) -> Statuses \cup {"absent"}]}

InitGate ==
    /\ now = 0
    /\ ctx = NoneDone
    /\ rv = NoVersions
    /\ stored = EmptyStatus
    /\ downloadPackage \in BOOLEAN
    /\ pc = "gate"
    /\ p \in ConditionSets
    /\ cl = NoCluster
    /\ pass0 = p
    /\ ops = {}
    /\ wrote = FALSE
    /\ result = NoResult
    /\ rep = "none"
    /\ dangling = {}
    /\ todo = <<>>
    /\ attempt = 0
    /\ failures = 0
    /\ err = ""
    /\ calls = NoCalls

\* one evaluation of the gatekeeper sequence; todo collects the stages selected
EvaluateGatekeeper ==
    /\ pc = "gate"
    /\ p' = Gatekeeper(p, downloadPackage).Status
    /\ todo' = Append(todo, Gatekeeper(p, downloadPackage).stage)
    /\ pc' = IF Len(todo') = 2 THEN "gated" ELSE "gate"
    /\ UNCHANGED <<stored, downloadPackage, rv, ctx, now, cl, pass0, ops, wrote, result, rep, dangling,
                   attempt, failures, err, calls>>

NextGate == EvaluateGatekeeper

SpecGate == InitGate /\ [][NextGate]_vars

(***************************************************************************)
(* One streaming engine operation of a pass, lines 763-913: imageLoad,      *)
(* imagePush or imagePull decoding the messages of the engine's response,   *)
(* with the context Reconcile was handed and the context it creates, inside *)
(* the retried closure of its image.  todo is the response stream, attempt  *)
(* the number of messages decoded so far, calls.last the closure's last     *)
(* attempt.                                                                 *)
(***************************************************************************)
MaxMessages == 3    \* messages of one response stream

StreamOperations == {"imageLoad", "imagePush", "imagePull"}

\* a message of the stream: a status line, a line "Loaded image: ..." that
\* parseImageName recognises, a message with the Error field set, bytes that do
\* not decode
MessageKinds == {"status", "loaded", "error", "garbled"}

Streams == UNION {[1..n -> MessageKinds] : n \in 0..MaxMessages}

InitStream ==
    /\ now = 0
    /\ ctx = NoneDone
    /\ rv = NoVersions
    /\ stored = EmptyStatus
    /\ downloadPackage \in BOOLEAN
    /\ pc = "call"
    /\ p = EmptyStatus
    /\ cl = NoCluster
    /\ pass0 = EmptyStatus
    /\ \E operation \in StreamOperations :
            /\ ops = {operation}
            /\ operation = "imageLoad" => downloadPackage
            /\ operation = "imagePull" => ~downloadPackage
    /\ wrote = FALSE
    /\ result = NoResult
    /\ rep = "none"
    /\ dangling = {}
    /\ todo \in Streams
    /\ attempt = 0
    /\ failures = 0
    /\ err = ""
    /\ calls = NoCalls

\* a decode loop that does not look at the Error field of a message
DecodeError_Ignored(kind) ==
    IF kind = "garbled" THEN "failed to decode json message" ELSE ""

\* the error a decode loop returns at a message, "" when it goes on to the next
DecodeError(kind) ==
    IF kind = "garbled" THEN "failed to decode json message"
    ELSE IF kind = "error" THEN "error detail"
    ELSE ""

\* the scheduler cancels the context it handed to Reconcile; the pass's context
\* is a child of context.Background() (line 84) and is not affected
SchedulerCancel ==
    /\ ~ctx.request
    /\ pc \in {"call", "stream"}
    /\ ctx' = [ctx EXCEPT !.request = TRUE]
    /\ UNCHANGED <<stored, downloadPackage, rv, now, pc, p, cl, pass0, ops, wrote, result, rep,
                   dangling, todo, attempt, failures, err, calls>>

\* p.dcli.ImageLoad / ImagePush / ImagePull with the pass's context
EngineCall ==
    /\ pc = "call"
    /\ \E callOk \in BOOLEAN :
        IF callOk /\ ~ctx.pass
        THEN /\ pc' = "stream"
             /\ UNCHANGED err
        ELSE /\ pc' = "returned"
             /\ err' = "engine"
    /\ UNCHANGED <<stored, downloadPackage, rv, ctx, now, p, cl, pass0, ops, wrote, result, rep,
                   dangling, todo, attempt, failures, calls>>

\* one round of the decode loop: the select on the pass's context, then Decode
DecodeMessage ==
    /\ pc = "stream"
    /\ UNCHANGED <<stored, downloadPackage, rv, ctx, now, p, cl, pass0, ops, wrote, result, rep,
                   dangling, todo, failures, calls>>
    /\ IF ctx.pass
       THEN /\ pc' = "returned"
            /\ err' = "context"
            /\ UNCHANGED attempt
       ELSE IF attempt = Len(todo)
       THEN /\ pc' = "returned"
            /\ err' = IF /\ "imageLoad" \in ops
                         /\ \A k \in 1..Len(todo) : todo[k] # "loaded"
                      THEN "not parse image name" ELSE ""
            /\ UNCHANGED attempt
       ELSE /\ attempt' = attempt + 1
            /\ IF DecodeError(todo[attempt']) # ""
               THEN pc' = "returned" /\ err' = DecodeError(todo[attempt'])
               ELSE UNCHANGED <<pc, err>>

\* the retried closure after its streaming operation has returned, its other
\* calls succeeding: the image is counted, or the attempt has failed and Retry
\* calls the closure again, with a new response stream, or gives up
ClosureReturns ==
    /\ pc = "returned"
    /\ LET try == calls.last.try + 1
           ok == err = ""
       IN /\ calls' = RecordAttempt(calls, 1, try, ops, FALSE, FALSE, ok, ok)
          /\ IF ok
             THEN /\ p' = AppendPushed(p, 1)
                  /\ pc' = "done"
                  /\ UNCHANGED <<todo, attempt, err>>
             ELSE IF RetryExhausted(try)
             THEN /\ pc' = "done"
                  /\ UNCHANGED <<p, todo, attempt, err>>
             ELSE /\ pc' = "call"
                  /\ todo' \in Streams
                  /\ attempt' = 0
                  /\ err' = ""
                  /\ UNCHANGED p
    /\ UNCHANGED <<stored, downloadPackage, rv, ctx, now, cl, pass0, ops, wrote, result, rep,
                   dangling, failures>>

\* defer cancel() when Reconcile returns
DeferredCancel ==
    /\ pc = "done"
    /\ pc' = "cancelled"
    /\ ctx' = [ctx EXCEPT !.pass = TRUE]
    /\ UNCHANGED <<stored, downloadPackage, rv, now, p, cl, pass0, ops, wrote, result, rep,
                   dangling, todo, attempt, failures, err, calls>>

NextStream ==
    \/ SchedulerCancel
    \/ EngineCall
    \/ DecodeMessage
    \/ ClosureReturns
    \/ DeferredCancel

SpecStream == InitStream /\ [][NextStream]_vars

(***************************************************************************)
(* The destination reference of the load-and-push closure, lines 727-744,   *)
(* 934-949, 978-990.  A string is the sequence of its pieces: the name      *)
(* components, the separators "/" and ":", the tag, the prefix "Loaded      *)
(* image: " and the line end.  todo is <<the line of the load stream, the   *)
(* new domain>>; the reference pushed is appended to p.ImagesPushed.        *)
(***************************************************************************)
MaxComponents == 3  \* components of an image name

NameComponents == {"registry.example", "foo", "bar"}

Tags == {"1.2", "latest"}

\* a/b/c
Slashed(comps) ==
    [k \in 1..(2 * Len(comps) - 1) |-> IF k % 2 = 1 THEN comps[(k + 1) \div 2] ELSE "/"]

\* the image names of the bundle: one to MaxComponents components, with or
\* without a tag
ImageNames ==
    LET names == {Slashed(c) : c \in UNION {[1..n -> NameComponents] : n \in 1..MaxComponents}}
    IN names \cup {n \o <<":", t>> : n \in names, t \in Tags}

\* rbdutil.GetImageRepository(p.cluster)
NewDomains == {<<"dest.example">>, <<"dest.example", "/", "ns">>}

\* the lines of the load stream: "Loaded image: <name>\n", or a status line
StreamLines ==
    {<<"Loaded image: ">> \o n \o <<"\n">> : n \in ImageNames} \cup {<<"status", "\n">>}

\* strings.HasSuffix(str, ":latest")
HasLatestSuffix(str) ==
    Len(str) >= 2 /\ str[Len(str) - 1] = ":" /\ str[Len(str)] = "latest"

trimLatest(str) == IF HasLatestSuffix(str) THEN SubSeq(str, 1, Len(str) - 2) ELSE str

\* str without the piece, as strings.Replace(str, piece, "", -1) leaves it
Without(str, piece) ==
    LET keep == {k \in 1..Len(str) : str[k] # piece}
        nth(n) == CHOOSE k \in keep : Cardinality({j \in keep : j <= k}) = n
    IN [n \in 1..Cardinality(keep) |-> str[nth(n)]]

parseImageName(str) ==
    IF \A k \in 1..Len(str) : str[k] # "Loaded image: "
    THEN <<>>
    ELSE trimLatest(Without(Without(str, "Loaded image: "), "\n"))

\* reference.Parse(image): name and tag are split at the ":", the first
\* component of a name of several components is its domain
Parse(image) ==
    LET tagged == Len(image) >= 3 /\ image[Len(image) - 1] = ":"
        name == IF tagged THEN SubSeq(image, 1, Len(image) - 2) ELSE image
        hasDomain == Len(name) >= 3
    IN [ok |-> image # <<>>,
        domain |-> IF hasDomain THEN name[1] ELSE "",
        path |-> IF hasDomain THEN SubSeq(name, 3, Len(name)) ELSE name,
        tag |-> IF tagged THEN image[Len(image)] ELSE ""]

\* path.Join(newDomain, reference.Path(named) + ":" + tag)
newImageWithNewDomain(image, newDomain) ==
    LET repo == Parse(image)
        tag == IF repo.tag # "" THEN repo.tag ELSE "latest"
    IN IF ~repo.ok THEN <<>>
       ELSE newDomain \o <<"/">> \o repo.path \o <<":", tag>>

InitImage ==
    /\ now = 0
    /\ ctx = NoneDone
    /\ rv = NoVersions
    /\ stored = EmptyStatus
    /\ downloadPackage = TRUE
    /\ pc = "load"
    /\ p = [EmptyStatus EXCEPT !.ImagesNumber = 1]
    /\ cl = NoCluster
    /\ pass0 = EmptyStatus
    /\ ops = {}
    /\ wrote = FALSE
    /\ result = NoResult
    /\ rep = "none"
    /\ dangling = {}
    /\ \E line \in StreamLines, newDomain \in NewDomains : todo = <<line, newDomain>>
    /\ attempt = 1
    /\ failures = 0
    /\ err = ""
    /\ calls = NoCalls

\* the closure f of imagesLoadAndPush on one file whose load stream holds the
\* line todo[1], with every engine call succeeding
LoadAndTag ==
    /\ pc = "load"
    /\ LET image == parseImageName(todo[1])
           newImage == newImageWithNewDomain(image, todo[2])
       IN IF image = <<>> \/ newImage = <<>>
          THEN /\ pc' = "failed"
               /\ err' = IF image = <<>> THEN "load image" ELSE "parse image name failure"
               /\ UNCHANGED <<p, ops>>
          ELSE /\ pc' = "pushed"
               /\ p' = AppendPushed(p, newImage)
               /\ ops' = {"imageLoad", "ImageTag", "imagePush"}
               /\ UNCHANGED err
    /\ UNCHANGED <<stored, downloadPackage, rv, ctx, now, cl, pass0, wrote, result, rep, dangling,
                   todo, attempt, failures, calls>>

NextImage == LoadAndTag

SpecImage == InitImage /\ [][NextImage]_vars

(***************************************************************************)
(* The status changes of a pass under a clock that advances, lines 356-372  *)
(* and 476-487: updateConditionStatus on the stage todo[1] and              *)
(* setInitStatus, in any order.  ops holds the last call.                   *)
(***************************************************************************)
MaxClock == 2       \* ticks of the clock

InitTime ==
    /\ now = 0
    /\ ctx = NoneDone
    /\ rv = NoVersions
    /\ stored = EmptyStatus
    /\ downloadPackage \in BOOLEAN
    /\ pc = "handle"
    /\ p \in {initPackageStatus(status) : status \in Statuses}
    /\ cl = NoCluster
    /\ pass0 = p
    /\ ops = {}
    /\ wrote = FALSE
    /\ result = NoResult
    /\ rep = "none"
    /\ dangling = {}
    /\ \E i \in 1..Len(Stages) : todo = <<Stages[i]>>
    /\ attempt = 0
    /\ failures = 0
    /\ err = ""
    /\ calls = NoCalls

\* time passes
Tick ==
    /\ now < MaxClock
    /\ now' = now + 1
    /\ ops' = {}
    /\ UNCHANGED <<stored, downloadPackage, rv, ctx, pc, p, cl, pass0, wrote, result, rep,
                   dangling, todo, attempt, failures, err, calls>>

\* p.updateConditionStatus(todo[1], status)
CallUpdateConditionStatus ==
    /\ \E status \in Statuses : p' = updateConditionStatus(p, todo[1], status)
    /\ ops' = {"updateConditionStatus"}
    /\ UNCHANGED <<stored, downloadPackage, rv, ctx, now, pc, cl, pass0, wrote, result, rep,
                   dangling, todo, attempt, failures, err, calls>>

\* p.setInitStatus(), up to its write
CallSetInitStatus ==
    /\ p' = setInitStatus(p)
    /\ ops' = {"setInitStatus"}
    /\ UNCHANGED <<stored, downloadPackage, rv, ctx, now, pc, cl, pass0, wrote, result, rep,
                   dangling, todo, attempt, failures, err, calls>>

NextTime ==
    \/ Tick
    \/ CallUpdateConditionStatus
    \/ CallSetInitStatus

SpecTime == InitTime /\ [][NextTime]_vars

(***************************************************************************)
(* The download stage with its reporter, lines 507-542 and 569-578, over    *)
(* every percentage the transfer can show.  todo is <<downloadListener      *)
(* .Percent>>, ops the reporter's last sample.                              *)
(***************************************************************************)
Percents == 0..MaxProgress

InitSkew ==
    /\ now = 0
    /\ ctx = NoneDone
    /\ rv = NoVersions
    /\ downloadPackage = TRUE
    /\ pc = "Download"
    /\ p = canDownloadResult(setInitStatus(initPackageStatus("Waiting")), TRUE).Status
    /\ stored = p
    /\ cl = NoCluster
    /\ pass0 = p
    /\ ops = {}
    /\ wrote = FALSE
    /\ result = NoResult
    /\ rep = "DownloadPackage"
    /\ dangling = {}
    /\ \E pct \in Percents : todo = <<pct>>
    /\ attempt = 1
    /\ failures = 0
    /\ err = ""
    /\ calls = NoCalls

\* the transfer advances by one percent
Transfer ==
    /\ pc = "Download"
    /\ todo[1] + 1 \in Percents
    /\ todo' = <<todo[1] + 1>>
    /\ UNCHANGED <<stored, downloadPackage, rv, ctx, now, pc, p, cl, pass0, ops, wrote, result, rep,
                   dangling, attempt, failures, err, calls>>

\* a tick of the reporter: it samples the percentage, stores the skewed value
\* and writes the status when the value has changed
ReporterSample ==
    /\ rep # "none"
    /\ ops' = {todo[1]}
    /\ p' = updateConditionProgress(p, rep, realProgress(todo[1]))
    /\ IF ProgressChanged(p, rep, realProgress(todo[1]))
       THEN \E ok \in WriteOutcomes(0) : Write(p', ok)
       ELSE UNCHANGED <<stored, failures, wrote>>
    /\ UNCHANGED <<downloadPackage, rv, ctx, now, pc, cl, pass0, result, rep, dangling, todo,
                   attempt, err, calls>>

\* the transfer ends, and handle marks the stage Completed or Failed
DownloadReturns ==
    /\ pc = "Download"
    /\ rep' = "none"
    /\ \E dok \in BOOLEAN, ok \in WriteOutcomes(0) :
        IF dok THEN StageCompleted("DownloadPackage", ok)
        ELSE StageFailed(p, "DownloadPackage", "download package failure", ok)
    /\ UNCHANGED <<downloadPackage, rv, ctx, now, cl, pass0, ops, dangling, todo, attempt, calls>>

NextSkew ==
    \/ Transfer
    \/ ReporterSample
    \/ DownloadReturns

SpecSkew == InitSkew /\ [][NextSkew]_vars

(***************************************************************************)
(* The reconciler under a scheduler that keeps invoking passes, lines       *)
(* 82-160: the runs in which the cluster is fetched, marked complete and    *)
(* reports the repository ready, the engine client is created and every     *)
(* status write succeeds.                                                   *)
(***************************************************************************)
\* a step of such a run
Favourable ==
    /\ failures' = failures
    /\ pc = "idle" => /\ cl'.ConfigCompleted
                      /\ cl'.ImageRepository = "True"
                      /\ result' # 5

\* a stage function returns an error to handle
StageFails == err' # err /\ err' # ""

\* a step of the pass itself, not of a reporter
PassStep == pc' # pc \/ attempt' # attempt \/ todo' # todo \/ calls' # calls

NextLive == Next /\ Favourable

\* the scheduler keeps invoking passes and the thread of a pass keeps running (a
\* step of the pass is enabled in every state, so that weak fairness on the pass
\* is that its steps recur); from some point on no stage function fails
SpecLive ==
    /\ Init
    /\ [][NextLive]_vars
    /\ WF_vars(Reconcile /\ Favourable)
    /\ WF_vars(ReconcileReturn)
    /\ []<><<PassStep>>_vars
    /\ <>[][~StageFails]_vars

(***************************************************************************)
(* updateCRStatus at the API server, lines 308-322, with two writers: a     *)
(* pass and the reporter left over from the failed attempt of a stage.  pc  *)
(* is the position of each writer: "idle" outside updateCRStatus, "Get"     *)
(* before client.Get, "Update" before client.Status().Update.               *)
(***************************************************************************)
MaxVersion == 3     \* versions of the stored record

\* the status a pass leaves when the attempt of the stage has failed
FailedAt(typ3) ==
    LET init == setInitStatus(initPackageStatus("Waiting"))
    IN IF typ3 = "DownloadPackage"
       THEN FailCondition(canDownloadResult(init, TRUE).Status, typ3, "download package failure")
       ELSE FailCondition(
                canUnpackResult(updateConditionStatus(init, "DownloadPackage", "Completed"),
                                TRUE).Status,
                typ3, "unpack package failure")

\* the in-memory status of the writer
StatusIn(w) == IF w = "pass" THEN p ELSE (CHOOSE d \in dangling : TRUE).st

InitStore ==
    /\ now = 0
    /\ ctx = NoneDone
    /\ rv = NoVersions
    /\ downloadPackage = TRUE
    /\ pc = [w \in Writers |-> "idle"]
    /\ \E typ3 \in {"DownloadPackage", "UnpackPackage"} :
        /\ stored = FailedAt(typ3)
        /\ dangling = {[stage |-> typ3, st |-> stored, stop |-> FALSE]}
    /\ p = stored
    /\ cl = NoCluster
    /\ pass0 = stored
    /\ ops = {}
    /\ wrote = FALSE
    /\ result = NoResult
    /\ rep = "none"
    /\ todo = <<>>
    /\ attempt = 0
    /\ failures = 0
    /\ err = ""
    /\ calls = NoCalls

\* a pass starts: r.Get of the package, of which newpkg takes a deep copy
FetchPackage ==
    /\ pc["pass"] = "idle"
    /\ p' = stored
    /\ pass0' = stored
    /\ rv' = [rv EXCEPT !.object["pass"] = rv.latest, !.read["pass"] = rv.latest]
    /\ UNCHANGED <<stored, downloadPackage, pc, cl, ops, wrote, result, rep, dangling, todo,
                   attempt, failures, err, calls, ctx, now>>

\* the pass changes the condition of the stage and calls p.updateCRStatus()
PassChange ==
    /\ pc["pass"] = "idle"
    /\ \E d \in dangling, status \in {"Running", "Completed", "Failed"} :
        /\ p' = updateConditionStatus(p, d.stage, status)
        /\ p' # p
    /\ pc' = [pc EXCEPT !["pass"] = "Get"]
    /\ UNCHANGED <<stored, downloadPackage, rv, cl, pass0, ops, wrote, result, rep, dangling,
                   todo, attempt, failures, err, calls, ctx, now>>

\* the reporter's tick changes the progress and calls p.updateCRStatus()
ReporterChange ==
    /\ pc["reporter"] = "idle"
    /\ \E d \in dangling :
        \E progress \in ReporterProgress(d.stage) :
            /\ ProgressChanged(d.st, d.stage, progress)
            /\ dangling' = {[d EXCEPT !.st = updateConditionProgress(d.st, d.stage, progress)]}
    /\ pc' = [pc EXCEPT !["reporter"] = "Get"]
    /\ UNCHANGED <<stored, downloadPackage, rv, p, cl, pass0, ops, wrote, result, rep, todo,
                   attempt, failures, err, calls, ctx, now>>

\* client.Get(latest) and pkg.ResourceVersion = latest.ResourceVersion
GetLatest ==
    \E w \in Writers, getOk \in BOOLEAN :
        /\ pc[w] = "Get"
        /\ IF getOk
           THEN /\ rv' = [rv EXCEPT !.object[w] = rv.latest]
                /\ pc' = [pc EXCEPT ![w] = "Update"]
           ELSE /\ pc' = [pc EXCEPT ![w] = "idle"]
                /\ UNCHANGED rv
        /\ UNCHANGED <<stored, downloadPackage, p, cl, pass0, ops, wrote, result, rep, dangling,
                       todo, attempt, failures, err, calls, ctx, now>>

\* client.Status().Update(pkg): the server takes the object when its
\* ResourceVersion is the record's, and answers with a conflict otherwise, after
\* which RetryOnConflict calls the closure again
StatusUpdate ==
    \E w \in Writers :
        /\ pc[w] = "Update"
        /\ IF rv.object[w] = rv.latest
           THEN /\ rv.latest < MaxVersion
                /\ stored' = StatusIn(w)
                /\ rv' = [rv EXCEPT !.latest = @ + 1,
                                    !.object[w] = rv.latest + 1,
                                    !.read[w] = rv.latest + 1]
                /\ pc' = [pc EXCEPT ![w] = "idle"]
           ELSE /\ pc' = [pc EXCEPT ![w] = "Get"]
                /\ UNCHANGED <<stored, rv>>
        /\ UNCHANGED <<downloadPackage, p, cl, pass0, ops, wrote, result, rep, dangling, todo,
                       attempt, failures, err, calls, ctx, now>>

NextStore ==
    \/ FetchPackage
    \/ PassChange
    \/ ReporterChange
    \/ GetLatest
    \/ StatusUpdate

SpecStore == InitStore /\ [][NextStore]_vars

(***************************************************************************)
(* The reconciler on a cluster that is never in full-online install mode,   *)
(* line 113.                                                                *)
(***************************************************************************)
\* no pass fetches a full-online cluster
DefaultMode == cl'.InstallMode # "FullOnline"

NextDefault == Next /\ DefaultMode

SpecDefault == Init /\ [][NextDefault]_vars

(***************************************************************************)
(* Properties.                                                              *)
(***************************************************************************)
PassDone == pc = "done"

Initialized(st) == Len(st.Conditions) = Len(Stages)

HasStatus(st, status) ==
    \E i \in 1..Len(st.Conditions) : st.Conditions[i].Status = status

\* the status of the first condition that is Running or Failed, "none" without one
FirstStop(st) ==
    LET stop == {i \in 1..Len(st.Conditions) :
                    st.Conditions[i].Status \in {"Running", "Failed"}}
    IN IF stop = {} THEN "none"
       ELSE st.Conditions[CHOOSE i \in stop : \A j \in stop : i <= j].Status

AllCompleted(st) ==
    \A i \in 1..Len(st.Conditions) : st.Conditions[i].Status = "Completed"

\* the stages whose condition status differs between two initialized statuses
ChangedStages(st0, st1) ==
    {i \in 1..Len(Stages) : st0.Conditions[i].Status # st1.Conditions[i].Status}

StageFunctions == {"donwnloadPackage", "untartar", "imagePullAndPush", "imagesLoadAndPush"}

EngineCalls == {"ImageList", "imagePull", "imageLoad", "ImageTag", "imagePush"}

FullOnlineBranch == cl.ConfigCompleted /\ cl.InstallMode = "FullOnline"

\* every status object there is: the stored one, the pass's, the reporters'
StatusObjects == {stored, p} \cup {d.st : d \in dangling}

\* C1 (as stated): a pass over five conditions of which one is Running changes no
\* condition, invokes no operation and writes nothing.
C1_Original ==
    (PassDone /\ Initialized(pass0) /\ HasStatus(pass0, "Running"))
        => (p = pass0 /\ ops = {} /\ ~wrote)

\* C1 (amended): a pass over five conditions whose first Running or Failed condition
\* is Running, and that does not take the full-online branch, changes no condition,
\* invokes no operation, writes nothing and returns with requeue 0 or 3.
C1_RunningReturns ==
    (PassDone /\ Initialized(pass0) /\ FirstStop(pass0) = "Running" /\ ~FullOnlineBranch)
        => (p = pass0 /\ ops = {} /\ ~wrote /\ result \in {0, 3})

C1_Witness ==
    /\ PassDone /\ Initialized(pass0) /\ FirstStop(pass0) = "Running"
    /\ cl.ConfigCompleted /\ cl.InstallMode # "FullOnline" /\ cl.ImageRepository = "True"
    /\ result = 0

\* C2 (as stated): a pass over a condition set with a Failed stage selects and runs
\* no stage.
C2_Original ==
    (PassDone /\ HasStatus(pass0, "Failed")) => (ops = {} /\ p = pass0)

RunOf(typ3) ==
    IF typ3 = "DownloadPackage" THEN {"donwnloadPackage"}
    ELSE IF typ3 = "UnpackPackage" THEN {"untartar"}
    ELSE {"imagePullAndPush", "imagesLoadAndPush"}

\* C2 (amended): a Failed condition does not end the pass; with the cluster
\* configured, not full-online, the repository ready and the docker client created,
\* the pass runs the Failed stage (DownloadPackage, UnpackPackage, PushImage) again.
C2_FailedIsRetried ==
    \A typ3 \in {"DownloadPackage", "UnpackPackage", "PushImage"} :
        (/\ PassDone
         /\ StatusOf(pass0, typ3) = "Failed"
         /\ cl.ConfigCompleted /\ cl.InstallMode # "FullOnline"
         /\ cl.ImageRepository = "True"
         /\ result # 5)
            => (ops \cap RunOf(typ3) # {})

C2_Witness ==
    /\ PassDone
    /\ StatusOf(pass0, "UnpackPackage") = "Failed"
    /\ "Untartar" \in ops
    /\ StatusOf(p, "UnpackPackage") = "Completed"

\* C3 (as stated): in one pass at most one of DownloadPackage, UnpackPackage,
\* PushImage, Ready changes its condition status.
C3_Original ==
    (PassDone /\ Initialized(pass0) /\ Initialized(p))
        => Cardinality(ChangedStages(pass0, p) \ {1}) <= 1

\* C3 (amended): a pass runs at most one stage function; and when a download is
\* required and the pass is not full-online, at most one of the four stages changes
\* its condition status in it.
C3_OneStagePerPass ==
    /\ Cardinality(ops \cap StageFunctions) <= 1
    /\ (Initialized(pass0) /\ Initialized(p) /\ downloadPackage /\ ~FullOnlineBranch)
            => Cardinality(ChangedStages(pass0, p) \ {1}) <= 1

C3_Witness ==
    /\ PassDone /\ downloadPackage /\ Initialized(pass0)
    /\ "Untartar" \in ops
    /\ ChangedStages(pass0, p) = {3}

\* a stage is Completed only if every earlier stage is
LeftToRight(st) ==
    \A i, j \in 1..Len(st.Conditions) :
        (i < j /\ st.Conditions[j].Status = "Completed")
            => st.Conditions[i].Status = "Completed"

\* C4: in every status object (stored or in memory) a stage's condition is Completed
\* only if the condition of every earlier stage is Completed.
C4_LeftToRight == \A st \in StatusObjects : LeftToRight(st)

C4_Witness ==
    /\ StatusOf(stored, "UnpackPackage") = "Completed"
    /\ StatusOf(stored, "PushImage") = "Failed"
    /\ StatusOf(p, "PushImage") = "Completed"

\* five conditions, one per stage in order, all of the status, nothing pushed
FiveOf(st, status) ==
    /\ Len(st.Conditions) = Len(Stages)
    /\ \A i \in 1..Len(Stages) :
        /\ st.Conditions[i].Type = Stages[i]
        /\ st.Conditions[i].Status = status
    /\ st.ImagesPushed = <<>>

\* C5 (as stated): the pass over an empty condition list persists five Waiting
\* conditions, runs no stage and returns without requeue.
C5_Original ==
    (PassDone /\ pass0.Conditions = <<>>)
        => (FiveOf(stored, "Waiting") /\ ops = {} /\ result = 0)

\* C5 (amended): the pass over an empty condition list runs no stage; with the
\* cluster configured and not full-online it persists five Waiting conditions and
\* returns without requeue when its write succeeds, and persists nothing and
\* requeues after 5 s when the write fails; with the cluster not configured it
\* persists nothing and requeues after 3 s.
C5_FirstPass ==
    (PassDone /\ pass0.Conditions = <<>>)
        => /\ ops = {}
           /\ (cl.ConfigCompleted /\ cl.InstallMode # "FullOnline")
                => /\ result \in {0, 5}
                   /\ result = 0 => FiveOf(stored, "Waiting")
                   /\ result = 5 => stored = pass0
           /\ ~cl.ConfigCompleted => (result = 3 /\ stored = pass0)

C5_Witness ==
    /\ PassDone /\ pass0.Conditions = <<>> /\ result = 0
    /\ wrote /\ FiveOf(stored, "Waiting")

\* the cluster was not fetched or is not marked complete
NotConfigured == ~cl.ConfigCompleted

\* the pass reaches the prerequisites of handle and the repository is not ready
RepositoryNotReady ==
    /\ cl.ConfigCompleted /\ cl.InstallMode # "FullOnline"
    /\ cl.ImageRepository # "True"
    /\ FirstStop(pass0) # "Running"
    /\ ~AllCompleted(pass0)

\* C6 (as stated): with the cluster not configured or the repository not ready, a
\* pass over an initialized set changes no status and returns a requeue delay.
C6_Original ==
    (PassDone /\ Initialized(pass0) /\ (~cl.ConfigCompleted \/ cl.ImageRepository # "True"))
        => (ChangedStages(pass0, p) = {} /\ result > 0)

\* C6 (amended): with the cluster not configured, or with the pass reaching the
\* prerequisites of handle (not full-online, no stage found Running, not all stages
\* Completed) and the repository not ready, a pass over an initialized set changes
\* nothing, writes nothing, runs nothing and returns a requeue delay.
C6_PreconditionNotMet ==
    (PassDone /\ Initialized(pass0) /\ (NotConfigured \/ RepositoryNotReady))
        => /\ p = pass0
           /\ ~wrote
           /\ ops = {}
           /\ NotConfigured => result = 3
           /\ ~NotConfigured => result \in {5, 8}

C6_Witness ==
    /\ PassDone /\ Initialized(pass0) /\ RepositoryNotReady
    /\ StatusOf(pass0, "Init") = "Waiting"
    /\ result = 8

\* C7: an image-engine call (list, pull, load, tag, push) is made in a pass only if
\* the cluster the pass fetched is marked complete and its image-repository
\* condition is True.
C7_EngineBehindGate ==
    (ops \cap EngineCalls # {})
        => (cl.ConfigCompleted /\ cl.ImageRepository = "True")

C7_Witness == {"ImageList", "imagePull", "ImageTag", "imagePush"} \subseteq ops

\* the condition types of a status, in order
TypesOf(st) == [i \in 1..Len(st.Conditions) |-> st.Conditions[i].Type]

\* C8: every status object holds no condition (before initialization) or exactly
\* one condition per stage in the order Init, DownloadPackage, UnpackPackage,
\* PushImage, Ready.
C8_OnePerStage ==
    \A st \in StatusObjects : st.Conditions = <<>> \/ TypesOf(st) = Stages

C8_Witness ==
    /\ PassDone /\ wrote
    /\ TypesOf(stored) = Stages
    /\ StatusOf(stored, "Ready") = "Completed"
    /\ StatusOf(pass0, "Ready") = "Waiting"

\* C9 (as stated): every Completed condition of the stored status and of the pass's
\* status has progress 100 and empty reason and message.
C9_CompletedIsClean ==
    \A st \in {stored, p} : \A i \in 1..Len(st.Conditions) :
        st.Conditions[i].Status = "Completed"
            => /\ st.Conditions[i].Progress = MaxProgress
               /\ st.Conditions[i].Reason = ""
               /\ st.Conditions[i].Message = ""

\* C10 (as stated): after updateConditionProgress the stored progress of the stage
\* lies in 0..100, whatever the input.
C10_ProgressInRange ==
    pc = "returned"
        => \A i \in 1..Len(p.Conditions) :
            p.Conditions[i].Type = todo[1] => p.Conditions[i].Progress \in 0..MaxProgress

\* the stage whose operation the pass is about to start or is running, "none" otherwise
StageStarting ==
    IF pc = "donwnloadPackage" THEN "DownloadPackage"
    ELSE IF pc = "untartar" THEN "UnpackPackage"
    ELSE IF pc \in {"imagePullAndPush", "imagesLoadAndPush"} /\ attempt = 1 /\ calls = NoCalls
    THEN "PushImage"
    ELSE "none"

\* C11 (as stated): when the gatekeeper has selected a stage (canDownload, canUnpack
\* or canPushImage returned true) and the stage's operation is about to start, the
\* stage's condition is Running in the pass's status and in the persisted record.
C11_RunningBeforeOperation ==
    StageStarting # "none"
        => /\ StatusOf(p, StageStarting) = "Running"
           /\ StatusOf(stored, StageStarting) = "Running"

\* the progress of the stage's condition
ProgressOf(st, typ3) == st.Conditions[findCondition(st, typ3)].Progress

\* the pass has evaluated canDownload
PastCanDownload ==
    \/ pc \in {"canUnpack", "untartar", "Untartar", "canPushImage", "imagePullAndPush",
               "imagesLoadAndPush", "canReady"}
    \/ PassDone /\ ops \cap {"untartar", "imagePullAndPush", "imagesLoadAndPush"} # {}

\* C12: when a download is not required, DownloadPackage is never Running in any
\* status object and the download is never invoked (canDownload never returns true);
\* a pass that finds DownloadPackage Waiting has it Completed with progress 100 as
\* soon as it has evaluated canDownload, and a pass that returns without error has
\* persisted that.
C12_SkipShortcut ==
    ~downloadPackage
        => /\ \A st \in StatusObjects : StatusOf(st, "DownloadPackage") # "Running"
           /\ pc \notin {"donwnloadPackage", "Download"}
           /\ ops \cap {"donwnloadPackage", "Download"} = {}
           /\ (PastCanDownload /\ StatusOf(pass0, "DownloadPackage") = "Waiting")
                => /\ StatusOf(p, "DownloadPackage") = "Completed"
                   /\ ProgressOf(p, "DownloadPackage") = MaxProgress
                   /\ (PassDone /\ result = 0)
                        => /\ StatusOf(stored, "DownloadPackage") = "Completed"
                           /\ ProgressOf(stored, "DownloadPackage") = MaxProgress

C12_Witness ==
    /\ ~downloadPackage
    /\ pc = "canUnpack"
    /\ StatusOf(pass0, "DownloadPackage") = "Waiting"
    /\ StatusOf(p, "DownloadPackage") = "Completed"
    /\ StatusOf(stored, "DownloadPackage") = "Completed"
    /\ ProgressOf(stored, "DownloadPackage") = MaxProgress

\* C13 (as stated): once DownloadPackage is Completed in the persisted record it
\* stays Completed in every later step of the program, and a call of canDownload on
\* a status whose DownloadPackage is Completed returns false and changes nothing.
C13_CompletedStays ==
    [][/\ StatusOf(stored, "DownloadPackage") = "Completed"
            => StatusOf(stored', "DownloadPackage") = "Completed"
       /\ (pc = "canDownload" /\ pc' # pc /\ StatusOf(p, "DownloadPackage") = "Completed")
            => (pc' = "canUnpack" /\ p' = p)]_vars

\* C14: for every condition set and both values of the download-required flag, two
\* evaluations of the gatekeeper sequence in a row select the same stage (or none).
C14_Idempotent == Len(todo) = 2 => todo[1] = todo[2]

C14_Witness ==
    /\ Len(todo) = 2
    /\ ~downloadPackage
    /\ StatusOf(pass0, "DownloadPackage") = "Waiting"
    /\ StatusOf(pass0, "UnpackPackage") = "Failed"
    /\ todo[1] = "PushImage"
    /\ p # pass0

\* C15: on every condition set with one condition per stage, canPushImage returns
\* true iff UnpackPackage is Completed and PushImage is not Completed, and leaves
\* the set as it is; canReady returns true iff PushImage is Completed.
C15_PushAndReady ==
    TypesOf(p) = Stages
        => /\ canPushImageResult(p).can
                <=> (/\ StatusOf(p, "UnpackPackage") = "Completed"
                     /\ StatusOf(p, "PushImage") # "Completed")
           /\ canPushImageResult(p).Status = p
           /\ canReadyResult(p) <=> StatusOf(p, "PushImage") = "Completed"

C15_Witness ==
    /\ TypesOf(p) = Stages
    /\ todo = <<"PushImage">>
    /\ canPushImageResult(p).can
    /\ StatusOf(p, "Init") = "Failed"
    /\ StatusOf(p, "Ready") = "Completed"

\* the elements of a sequence
Range(seq) == {seq[k] : k \in 1..Len(seq)}

\* the last attempt was the last one of the retry budget and it failed
AllAttemptsFailed == calls.last.try = MaxRetries /\ ~calls.last.ok

\* C16: in pull-and-push no image is attempted more than 3 times; when the third
\* attempt of an image has failed the pass has ended with PushImage Failed, the
\* image is not in ImagesPushed, and no image after it in the processing order has
\* been handed to the retried closure (no engine call was made for it).
C16_RetryBudget ==
    "imagePullAndPush" \in ops
        => /\ calls.last.try <= MaxRetries
           /\ AllAttemptsFailed
                => /\ PassDone /\ result = 8 /\ err = "PushImage"
                   /\ StatusOf(p, "PushImage") = "Failed"
                   /\ calls.last.image \notin Range(p.ImagesPushed)
                   /\ todo # <<>> /\ Head(todo) = calls.last.image
                   /\ Range(Tail(todo)) \cap calls.tried = {}

C16_Witness ==
    /\ "imagePullAndPush" \in ops
    /\ PassDone
    /\ Len(todo) = MaxImages
    /\ AllAttemptsFailed
    /\ "imagePush" \in calls.last.made
    /\ calls.tried = {Head(todo)}
    /\ p.ImagesPushed = <<>>
    /\ StatusOf(stored, "PushImage") = "Failed"

\* the pass ran pull-and-push to its end and every attempt and every write of it
\* succeeded: no attempt failed, no error returned
AllSucceeded ==
    /\ "imagePullAndPush" \in ops
    /\ PassDone /\ err = "" /\ result = 0
    /\ ~calls.retried

\* C17: in pull-and-push an attempt makes a pull call iff it found the image
\* missing locally, and a successful attempt has made the tag and the push call;
\* after an attempt over N entries in which everything succeeded (one attempt per
\* entry), the entries pulled are exactly those not found locally, every entry was
\* pushed, ImagesPushed holds the N entries and PushImage is Completed with
\* progress 100.
C17_AllSucceed ==
    "imagePullAndPush" \in ops
        => /\ "imagePull" \in calls.last.made <=> calls.last.missing
           /\ calls.last.ok => {"ImageTag", "imagePush"} \subseteq calls.last.made
           /\ AllSucceeded
                => /\ calls.tried = Images
                   /\ calls.pushed = Images
                   /\ calls.pulled = Images \ calls.found
                   /\ Len(p.ImagesPushed) = MaxImages
                   /\ Range(p.ImagesPushed) = Images
                   /\ StatusOf(p, "PushImage") = "Completed"
                   /\ ProgressOf(p, "PushImage") = MaxProgress
                   /\ stored = p

C17_Witness ==
    /\ AllSucceeded
    /\ p.ImagesPushed[1] \in calls.found
    /\ p.ImagesPushed[1] \notin calls.pulled
    /\ p.ImagesPushed[2] \in calls.pulled
    /\ ProgressOf(stored, "PushImage") = MaxProgress

\* the pass is in the image distributor
Distributing == pc \in {"imagePullAndPush", "imagesLoadAndPush"}

\* C18: the pass's ImagesPushed is empty when a PushImage stage attempt starts (a
\* first attempt or a re-attempt); within the attempt a step leaves it or appends
\* one entry, the image whose push has just succeeded; every entry is an image
\* whose push succeeded in the current attempt.
C18_AppendOnly ==
    [][/\ (pc = "canPushImage" /\ Distributing') => p'.ImagesPushed = <<>>
       /\ Distributing
            => \/ p'.ImagesPushed = p.ImagesPushed
               \/ \E i \in Images :
                    /\ p'.ImagesPushed = Append(p.ImagesPushed, i)
                    /\ calls'.last.image = i
                    /\ "imagePush" \in calls'.last.made
                    /\ i \in calls'.pushed
       /\ Distributing' => Range(p'.ImagesPushed) \subseteq calls'.pushed]_vars

C18_Witness ==
    /\ Distributing
    /\ StatusOf(pass0, "PushImage") = "Failed"
    /\ Len(pass0.ImagesPushed) = 1
    /\ Len(p.ImagesPushed) = MaxImages
    /\ p.ImagesPushed[1] # pass0.ImagesPushed[1]

\* C19: throughout a pull-and-push attempt, once an image has been processed the
\* PushImage progress is floor(Len(ImagesPushed) * 100 / ImagesNumber); the step that
\* processes an image calls the status write (which succeeds or fails) if the
\* progress value changed, and writes nothing if it did not.
C19_ProgressPerImage ==
    [][/\ (pc' = "imagePullAndPush" /\ p'.ImagesPushed # <<>>)
            => ProgressOf(p', "PushImage")
                    = (Len(p'.ImagesPushed) * 100) \div p'.ImagesNumber
       /\ (pc = "imagePullAndPush" /\ Len(p'.ImagesPushed) = Len(p.ImagesPushed) + 1)
            => /\ ProgressOf(p', "PushImage")
                    = (Len(p'.ImagesPushed) * 100) \div p'.ImagesNumber
               /\ IF ProgressOf(p', "PushImage") # ProgressOf(p, "PushImage")
                  THEN stored' = p' \/ failures' > failures
                  ELSE UNCHANGED <<stored, failures>>]_vars

C19_Witness ==
    /\ pc = "imagePullAndPush"
    /\ Len(p.ImagesPushed) = 1
    /\ p.ImagesNumber = MaxImages
    /\ ProgressOf(p, "PushImage") = 100 \div MaxImages
    /\ ProgressOf(pass0, "PushImage") = 0
    /\ stored = p

\* C20: in the step in which the function of the active stage (download, unpack,
\* image distribution) returns an error, the stage's condition becomes Failed with a
\* non-empty reason and message in the pass's status, the pass calls the status
\* write with it (which succeeds or fails), and the pass ends with a requeue delay
\* of 8 seconds.
C20_StageFailure ==
    [][(err = "" /\ err' # "")
            => /\ err' \in {"DownloadPackage", "UnpackPackage", "PushImage"}
               /\ StatusOf(p', err') = "Failed"
               /\ p'.Conditions[findCondition(p', err')].Reason # ""
               /\ p'.Conditions[findCondition(p', err')].Message # ""
               /\ stored' = p' \/ failures' > failures
               /\ wrote'
               /\ pc' = "done" /\ result' = 8]_vars

C20_Witness ==
    /\ PassDone /\ result = 8
    /\ err = "UnpackPackage"
    /\ "Untartar" \in ops
    /\ StatusOf(stored, "UnpackPackage") = "Failed"
    /\ stored = p

(***************************************************************************)
(* C21: a reporter started for the download or the extraction is signalled  *)
(* to stop whenever the blocking call returns, on success and on failure    *)
(* alike: every reporter left behind by a stage function that has returned  *)
(* has been sent the stop signal.                                           *)
(***************************************************************************)
C21_StoppedOnReturn == \A d \in dangling : d.stop

\* a download stage attempt of this pass has returned to Reconcile
DownloadAttempted == PassDone /\ "donwnloadPackage" \in ops

\* both transfers of the download stage attempt were made and failed
BothTransfersFailed == calls.last.try = 2 /\ ~calls.last.ok

\* C22: in one download stage attempt the transfer is performed at most twice; a
\* second transfer is made only after the first one failed, and a failed first
\* transfer is always followed by a second one; the stage function succeeds
\* (DownloadPackage Completed in the pass's status) if a transfer succeeded or the
\* local file matched the checksum, in which case no transfer was made; it fails
\* (DownloadPackage Failed, error returned) iff both transfers failed.
C22_TransferTwice ==
    /\ pc = "Download" => /\ attempt \in 1..2
                          /\ calls.last.try = attempt - 1
                          /\ attempt = 2 => calls.retried /\ ~calls.last.ok
    /\ DownloadAttempted
        => /\ calls.last.try <= 2
           /\ "Download" \in ops <=> calls.last.try >= 1
           /\ calls.last.try = 2 => calls.retried
           /\ calls.last.try = 1 => calls.last.ok
           /\ StatusOf(p, "DownloadPackage") = "Failed" <=> BothTransfersFailed
           /\ StatusOf(p, "DownloadPackage") = "Completed"
                <=> (calls.last.ok \/ "Download" \notin ops)
           /\ err = "DownloadPackage" <=> BothTransfersFailed
           /\ BothTransfersFailed => result = 8

\* the first transfer failed and the retry succeeded
C22_Witness ==
    /\ DownloadAttempted
    /\ calls.last.try = 2 /\ calls.last.ok /\ calls.retried
    /\ StatusOf(stored, "DownloadPackage") = "Completed"
    /\ result = 0

\* C23: when the context the scheduler handed to the pass is done while a pull,
\* a push or a load is decoding its stream and a message is still to come, the
\* operation's next step decodes no further message and returns the context's
\* error.
C23_ObservesCancel ==
    [][(ctx.request /\ pc = "stream" /\ attempt < Len(todo))
        => (pc' = "returned" /\ err' = "context" /\ attempt' = attempt)]_vars

\* C24: a status write of the pass that fails is a hard error for the pass: the
\* step in which the write fails ends the pass, with a requeue, and no stage
\* operation is started or continued after it.
C24_WriteFailureStops ==
    [][(PassStep /\ failures' > failures) => (pc' = "done" /\ result' > 0)]_vars

\* no pass is running and no reporter is alive: only a new pass can change the
\* persisted record
Quiescent == pc = "idle" /\ rep = "none" /\ dangling = {}

\* C25: a failed status write leaves no persisted state from which the machine
\* cannot advance: whenever no pass is running and no reporter is alive, the
\* persisted record holds no Running condition (on which every later pass would
\* return at once, leaving the record as it is).
C25_NoStuckRunning == Quiescent => ~HasStatus(stored, "Running")

\* C26 (as stated): a pass that waits on the preconditions returns a positive
\* requeue delay, a pass that finds a stage Running returns a positive requeue
\* delay, a pass that finds Ready (and every stage before it) Completed returns
\* no requeue delay.
C26_Original ==
    (PassDone /\ Initialized(pass0))
        => /\ (NotConfigured \/ RepositoryNotReady) => result > 0
           /\ (~FullOnlineBranch /\ FirstStop(pass0) = "Running") => result > 0
           /\ (~NotConfigured /\ ~FullOnlineBranch /\ AllCompleted(pass0)) => result = 0

\* C26 (amended): the pass returns a requeue delay of 3 s when the cluster is not
\* fetched or not marked complete, and of 5 s or 8 s when it reaches the
\* prerequisites of handle with the repository not ready; it returns no requeue
\* delay when it stops at a Running stage, and none when it finds every stage
\* Completed, unless it is a full-online pass whose status write failed (5 s).
C26_RetrySignal ==
    (PassDone /\ Initialized(pass0))
        => /\ NotConfigured => result = 3
           /\ (~NotConfigured /\ RepositoryNotReady) => result \in {5, 8}
           /\ (~NotConfigured /\ ~FullOnlineBranch /\ FirstStop(pass0) = "Running")
                => result = 0
           /\ (~NotConfigured /\ AllCompleted(pass0))
                => /\ result \in {0, 5}
                   /\ result = 5 => (FullOnlineBranch /\ failures > 0)
                   /\ ~FullOnlineBranch => ~wrote

\* a pass that found UnpackPackage Running has returned without a requeue delay,
\* with the repository not ready
C26_Witness ==
    /\ PassDone /\ Initialized(pass0)
    /\ StatusOf(pass0, "UnpackPackage") = "Running"
    /\ cl.ConfigCompleted /\ cl.InstallMode # "FullOnline" /\ cl.ImageRepository # "True"
    /\ ops = {} /\ ~wrote
    /\ result = 0

\* C27: under a scheduler that keeps invoking passes, with the cluster complete,
\* the repository ready, every status write succeeding and the stage functions
\* failing only finitely often, a persisted record with all five stages Waiting
\* leads to a persisted record with all five stages Completed.
C27_ReachesReady == FiveOf(stored, "Waiting") ~> AllCompleted(stored)

\* a pass has persisted Ready Completed after a stage attempt of an earlier pass
\* had failed (its reporter is still there, with the Failed status of that pass)
C27_Witness ==
    /\ PassDone /\ result = 0
    /\ StatusOf(pass0, "Ready") = "Waiting"
    /\ Initialized(stored) /\ AllCompleted(stored)
    /\ \E d \in dangling : HasStatus(d.st, "Failed")

\* C28: in load-and-push the loaded image name registry.example/foo/bar:1.2 and
\* the new domain dest.example/ns give the destination reference
\* dest.example/ns/bar:1.2.
C28_Example ==
    (/\ pc = "pushed"
     /\ todo[1] = <<"Loaded image: ", "registry.example", "/", "foo", "/", "bar", ":", "1.2",
                    "\n">>
     /\ todo[2] = <<"dest.example", "/", "ns">>)
        => p.ImagesPushed = <<<<"dest.example", "/", "ns", "/", "bar", ":", "1.2">>>>

\* C29: every setStatus call stamps LastHeartbeatTime of its stage, and in every
\* step LastTransitionTime of a stage is stamped if the stage's status changes
\* and left as it is if the status does not change, for every stage.
C29_TransitionOnChange ==
    [][/\ ops' = {"updateConditionStatus"}
            => p'.Conditions[findCondition(p, todo[1])].LastHeartbeatTime = now
       /\ \A i \in 1..Len(p.Conditions) :
            IF p'.Conditions[i].Status # p.Conditions[i].Status
            THEN p'.Conditions[i].LastTransitionTime = now
            ELSE p'.Conditions[i].LastTransitionTime = p.Conditions[i].LastTransitionTime
      ]_vars

\* C30: updateConditionProgress returns true iff the progress of the named stage
\* differs after the call from before it, the value it compares and stores being
\* the input clamped at 100; the caller writes the status only when it returned true.
C30_TrueIffChanged ==
    pc \in {"returned", "done"}
        => /\ result = 1 <=> ProgressOf(p, todo[1]) # ProgressOf(pass0, todo[1])
           /\ ProgressOf(p, todo[1]) = IF todo[2] > MaxProgress THEN MaxProgress ELSE todo[2]
           /\ wrote => result = 1
           /\ result = 0 => stored = EmptyStatus

C30_Witness ==
    /\ pc = "done"
    /\ todo[2] > MaxProgress
    /\ ProgressOf(pass0, todo[1]) = 0
    /\ ProgressOf(p, todo[1]) = MaxProgress
    /\ result = 1
    /\ wrote
    /\ stored = p

\* C31: the download reporter stores pct - floor(pct*5/100) for the percentage
\* pct it sampled, a value that is at most pct and below 100; a DownloadPackage
\* condition that is Running has progress below 100, and one with progress 100
\* is Completed.
C31_SkewedBelowDone ==
    /\ \A pct \in ops :
        rep # "none"
            => /\ ProgressOf(p, "DownloadPackage") = pct - ((pct * 5) \div 100)
               /\ ProgressOf(p, "DownloadPackage") <= pct
               /\ ProgressOf(p, "DownloadPackage") < MaxProgress
    /\ \A st \in {stored, p} :
        /\ StatusOf(st, "DownloadPackage") = "Running"
                => ProgressOf(st, "DownloadPackage") < MaxProgress
        /\ ProgressOf(st, "DownloadPackage") = MaxProgress
                => StatusOf(st, "DownloadPackage") = "Completed"

C31_Witness ==
    /\ pc = "Download"
    /\ ops = {MaxProgress}
    /\ todo = <<MaxProgress>>
    /\ StatusOf(stored, "DownloadPackage") = "Running"
    /\ ProgressOf(stored, "DownloadPackage") = 95

\* C32: a decode loop that meets a message with the Error field returns a failure
\* at that message and decodes no later one; the closure whose operation returned
\* that failure does not count the image as pushed, and the failure uses one
\* attempt of the three: the closure is called again unless it was the third.
C32_ErrorFieldFails ==
    /\ [](\A k \in 1..attempt :
            todo[k] = "error"
                => /\ k = attempt
                   /\ pc \in {"returned", "done", "cancelled"}
                   /\ err = "error detail")
    /\ [][(pc = "returned" /\ err = "error detail")
            => /\ p'.ImagesPushed = p.ImagesPushed
               /\ calls'.pushed = calls.pushed
               /\ ~calls'.last.ok
               /\ calls'.last.try = calls.last.try + 1
               /\ IF calls'.last.try < MaxRetries THEN pc' = "call" /\ attempt' = 0
                  ELSE pc' = "done"]_vars

C32_Witness ==
    /\ pc = "returned"
    /\ err = "error detail"
    /\ Len(todo) = 3
    /\ attempt = 2
    /\ todo[3] = "error"
    /\ calls.last.try = 1
    /\ ~calls.last.ok
    /\ p.ImagesPushed = <<>>

\* C33: a pass that starts on a record whose five conditions are all Completed
\* leaves the persisted status as it is, runs no operation and returns with no
\* requeue, whatever the cluster it fetches.
C33_TerminalStable ==
    [][(pc = "idle" /\ pc' # "idle" /\ Initialized(stored) /\ AllCompleted(stored))
            => /\ stored' = stored
               /\ ops' = {}
               /\ pc' = "done"
               /\ result' = 0]_vars

\* C34: in the persisted record at most one condition is Running, and every
\* condition before a Running one is Completed.
C34_OneRunning ==
    \A i \in 1..Len(stored.Conditions) :
        stored.Conditions[i].Status = "Running"
            => /\ \A j \in 1..(i - 1) : stored.Conditions[j].Status = "Completed"
               /\ \A j \in 1..Len(stored.Conditions) :
                    j # i => stored.Conditions[j].Status # "Running"

C34_Witness ==
    /\ pc = "Untartar"
    /\ StatusOf(stored, "Init") = "Completed"
    /\ StatusOf(stored, "DownloadPackage") = "Completed"
    /\ StatusOf(stored, "UnpackPackage") = "Running"
    /\ StatusOf(stored, "PushImage") = "Waiting"

\* C35: a condition that is Completed in the persisted record is Completed in the
\* persisted record after every step, of a pass or of a reporter, the reporters
\* left over from a failed stage attempt included.
C35_PersistedCompletedStable ==
    [][\A i \in 1..Len(stored.Conditions) :
            stored.Conditions[i].Status = "Completed"
                => /\ Len(stored'.Conditions) = Len(stored.Conditions)
                   /\ stored'.Conditions[i].Status = "Completed"]_vars

\* C36: a write of updateCRStatus succeeds only when the stored record is still
\* the version the writer's in-memory status was read from (or last written as),
\* so that it overwrites nothing another writer has written in between.
C36_NoLostUpdate ==
    [][\A w \in Writers :
            (pc[w] = "Update" /\ pc'[w] = "idle")
                => /\ rv.read[w] = rv.latest
                   /\ stored'.Conditions = StatusIn(w).Conditions]_vars

\* C37: in the pass's status and in the persisted record, ImagesPushed holds no
\* reference twice and is no longer than ImagesNumber, with either strategy.
C37_PushedOnce ==
    \A st \in {p, stored} :
        /\ \A i, j \in 1..Len(st.ImagesPushed) :
                st.ImagesPushed[i] = st.ImagesPushed[j] => i = j
        /\ Len(st.ImagesPushed) <= st.ImagesNumber

\* the stage whose operation the pass is in, "none" outside the stage operations
ActiveStage ==
    IF pc \in {"donwnloadPackage", "Download"} THEN "DownloadPackage"
    ELSE IF pc \in {"untartar", "Untartar"} THEN "UnpackPackage"
    ELSE IF pc \in {"imagePullAndPush", "imagesLoadAndPush"} THEN "PushImage"
    ELSE "none"

\* C38: a step taken while a stage operation is running, its failure and retry
\* paths included, leaves the status, progress, reason and message of the
\* condition of every other stage as they are.
C38_OwnConditionOnly ==
    [][ActiveStage # "none"
        => \A i \in 1..Len(p.Conditions) :
            p.Conditions[i].Type # ActiveStage
                => /\ p'.Conditions[i].Status = p.Conditions[i].Status
                   /\ p'.Conditions[i].Progress = p.Conditions[i].Progress
                   /\ p'.Conditions[i].Reason = p.Conditions[i].Reason
                   /\ p'.Conditions[i].Message = p.Conditions[i].Message]_vars

\* C39: a pass that fetches a configured full-online cluster goes from the fetch
\* straight to its return: it sets the five conditions Completed with nothing
\* pushed, whatever the record held, runs no operation, writes once, and returns
\* with no requeue and the record Completed when the write succeeds (with a
\* requeue after 5 s and the record as it was when the write fails).
C39_FullOnlineCompletes ==
    [][(pc = "idle" /\ pc' # "idle" /\ cl'.ConfigCompleted /\ cl'.InstallMode = "FullOnline")
        => /\ pc' = "done"
           /\ FiveOf(p', "Completed")
           /\ p'.ImagesPushed = <<>>
           /\ ops' = {}
           /\ wrote'
           /\ result' \in {0, 5}
           /\ result' = 0 => (stored' = p' /\ FiveOf(stored', "Completed"))
           /\ result' = 5 => stored' = stored]_vars

C39_Witness ==
    /\ PassDone
    /\ FullOnlineBranch
    /\ Initialized(pass0)
    /\ HasStatus(pass0, "Failed")
    /\ pass0.ImagesPushed # <<>>
    /\ result = 0
    /\ FiveOf(stored, "Completed")

====
